---- MODULE Spec2Model ----
(***************************************************************************)
(* Model of the bftt game server: the Game state machine of src/game.rs   *)
(* (players, alive/dead sets, player board, hearts board, curse election,  *)
(* phase, action-point economy) driven by the operations the supervisor    *)
(* of src/relay_server.rs applies to it.                                   *)
(***************************************************************************)
EXTENDS Integers, Sequences, FiniteSets, Bags, TLC

VARIABLES
    games,  \* RelayServer.games: game id -> the Game record (game.rs:287-301)
    user_games, \* RelayServer.user_games: user id -> id of the game the user is in
    timers, \* the Replenish messages scheduled with notify_later, each with its due time
    now,    \* the wall clock read by from_now (game.rs:1072-1083), in seconds
    users,  \* RelayServer.users: user id -> password
    sessions, \* RelayServer.sessions: the endpoint and the verification key of each user
    notified, \* the UserStatus messages queued with ctx.notify, as a bag of user ids
    election, \* an Election of election.rs, the preferential tally
    count \* the position of a call of apply_preferential_voting in its loop

vars == <<games, user_games, timers, now, users, sessions, notified, election, count>>

----------------------------------------------------------------------------
(* Bounds of the model *)

\* no Replenish that is due after MaxNow is delivered, which bounds the turns
MaxNow == 2
\* no more than MaxHearts hearts lie on the hearts board
MaxHearts == 1

\* the users that take part; Host hosts the game, Stranger never joins
Users == {"a", "b", "c", "d"}
Host == "a"
Stranger == "z"
GameId == "g"
\* the id of a second game
OtherGame == "h"

----------------------------------------------------------------------------
(* Program constants, game.rs:394-406 *)

TURN_TIME_SECS == 2
MAX_PLAYERS == 13
BOARD_SIZE == 10
INIT_RANGE == 2
INIT_ACTION_POINTS == 1
INIT_LIVES == 3
MOVE_COST == 1
ATTACK_LIVES_EFFECT == 1
ATTACK_COST == 1
RANGE_UPGRADE_COST == 3
HEAL_COST == 3
\* stands for usize::MAX, the coordinate of a player that is not placed
USIZE_MAX == 2147483647

----------------------------------------------------------------------------
(* Maps (HashMap) as functions *)

EmptyMap == [k \in {} |-> TRUE]
MapPut(m, k, v) == [x \in (DOMAIN m) \cup {k} |-> IF x = k THEN v ELSE m[x]]
MapDel(m, k) == [x \in (DOMAIN m) \ {k} |-> m[x]]

\* no call of apply_preferential_voting is under way
NoCount ==
    [pc |-> "idle", pref |-> 0, half |-> 0, max_prefs |-> 0, todo |-> {},
     max |-> 0, min |-> USIZE_MAX, min_id |-> "", eliminated |-> <<>>, err |-> ""]

\* Election::new
Election_new ==
    [candidates |-> {}, voters |-> {}, vote_count |-> EmptyMap, init_vote_count |-> {},
     voter_ballots |-> EmptyMap, open |-> TRUE, ballots_ordered |-> {}]

----------------------------------------------------------------------------
(* Pos, game.rs:10-33 *)

Pos(x, y) == [x |-> x, y |-> y]
Unplaced == Pos(USIZE_MAX, USIZE_MAX)

xy_distances(a, b) ==
    Pos(IF a.x < b.x THEN b.x - a.x ELSE a.x - b.x,
        IF a.y < b.y THEN b.y - a.y ELSE a.y - b.y)

key(pos) == ToString(pos.x) \o "," \o ToString(pos.y)

\* the cells the random die and the clients are observed to name
Window == {Pos(0, 0), Pos(0, 1), Pos(1, 0), Pos(1, 1)}
FarCell == Pos(0, 3)

----------------------------------------------------------------------------
(* Player, game.rs:35-93 *)

NewPlayer(user_id) ==
    [user_id |-> user_id, lives |-> INIT_LIVES, action_points |-> INIT_ACTION_POINTS,
     pos |-> Unplaced, range |-> INIT_RANGE]

is_alive(p) == ~(p.lives < 1)

is_dead(p) == ~(p.lives > 0)

has_action_points(p, required) == ~(p.action_points < required)

\* moveable_in_prog that forgets to ask for an action point
moveable_in_prog_unpaid(p, pos) ==
    LET dist == xy_distances(p.pos, pos)
    IN  IF dist.x > p.range \/ dist.y > p.range THEN "move out of range" ELSE "ok"

\* "ok", or the reason the player cannot act on pos
moveable_in_prog(p, pos) ==
    IF ~has_action_points(p, 1) THEN "insufficient action points"
    ELSE LET dist == xy_distances(p.pos, pos)
         IN  IF dist.x > p.range \/ dist.y > p.range THEN "move out of range" ELSE "ok"

----------------------------------------------------------------------------
(* Board, game.rs:95-119 *)

NewBoard(size) == [map |-> EmptyMap, size |-> size]

in_bounds(board, pos, check_occupied) ==
    IF pos.x >= board.size \/ pos.y >= board.size THEN "out of range"
    ELSE IF check_occupied /\ key(pos) \in DOMAIN board.map THEN "space is occupied"
    ELSE "ok"

----------------------------------------------------------------------------
(* PlayersAliveDead, game.rs:121-148 *)

NewPlayersAliveDead == [alive |-> {}, dead |-> {}]

set_alive(pad, id) == [alive |-> pad.alive \cup {id}, dead |-> pad.dead \ {id}]

\* set_dead that forgets to take the id out of alive
set_dead_keeps_alive(pad, id) == [alive |-> pad.alive, dead |-> pad.dead \cup {id}]

set_dead(pad, id) == [alive |-> pad.alive \ {id}, dead |-> pad.dead \cup {id}]

alive_len(pad) == Cardinality(pad.alive)

----------------------------------------------------------------------------
(* The curse Election, game.rs:150-267 *)

NewElection ==
    [candidates |-> {}, voters |-> {}, vote_count |-> EmptyMap, voter_vote |-> EmptyMap]

\* the tally with voter_id taken out of the set of the candidate it voted for
DropFromTally(e, voter_id) ==
    IF voter_id \in DOMAIN e.voter_vote /\ e.voter_vote[voter_id] \in DOMAIN e.vote_count
    THEN [e.vote_count EXCEPT ![e.voter_vote[voter_id]] = @ \ {voter_id}]
    ELSE e.vote_count

remove_vote(e, voter_id) ==
    [e EXCEPT !.vote_count = DropFromTally(e, voter_id),
              !.voter_vote = MapDel(e.voter_vote, voter_id)]

vote(e, voter_id, candidate_id) ==
    IF voter_id \notin e.voters
    THEN [ok |-> FALSE, err |-> "player cannot vote", election |-> e]
    ELSE IF candidate_id \notin e.candidates
    THEN [ok |-> FALSE, err |-> "not a candidate", election |-> e]
    ELSE LET vc1 == DropFromTally(e, voter_id)
             vc2 == IF candidate_id \in DOMAIN vc1 THEN vc1
                    ELSE MapPut(vc1, candidate_id, {})
             vc3 == [vc2 EXCEPT ![candidate_id] = @ \cup {voter_id}]
         IN  [ok |-> TRUE, err |-> "",
              election |-> [e EXCEPT !.vote_count = vc3,
                                     !.voter_vote = MapPut(e.voter_vote, voter_id, candidate_id)]]

convert_voter(e, voter_id) ==
    [e EXCEPT !.voters = @ \ {voter_id},
              !.candidates = @ \cup {voter_id},
              !.vote_count = DropFromTally(e, voter_id),
              !.voter_vote = MapDel(e.voter_vote, voter_id)]

\* convert_candidate that keeps the votes the tally holds for the candidate
convert_candidate_keeps_tally(e, candidate_id) ==
    [e EXCEPT !.candidates = @ \ {candidate_id},
              !.voters = @ \cup {candidate_id}]

convert_candidate(e, candidate_id) ==
    [e EXCEPT !.candidates = @ \ {candidate_id},
              !.voters = @ \cup {candidate_id},
              !.vote_count = MapDel(e.vote_count, candidate_id)]

get_voter_vote(e, voter_id) ==
    IF voter_id \in DOMAIN e.voter_vote THEN {e.voter_vote[voter_id]} ELSE {}

reset(e) == [e EXCEPT !.vote_count = EmptyMap, !.voter_vote = EmptyMap]

\* the loop of redeem over the entries of vote_count not yet visited
RECURSIVE RedeemLoop(_, _, _, _)
RedeemLoop(vc, todo, len, res) ==
    IF todo = {} THEN res
    ELSE LET k == CHOOSE x \in todo : TRUE
             n == Cardinality(vc[k])
         IN  IF n = len THEN RedeemLoop(vc, todo \ {k}, len, res \cup {k})
             ELSE IF n > len THEN RedeemLoop(vc, todo \ {k}, n, {k})
             ELSE RedeemLoop(vc, todo \ {k}, len, res)

redeem(e) ==
    [res |-> RedeemLoop(e.vote_count, DOMAIN e.vote_count, 1, {}), election |-> reset(e)]

----------------------------------------------------------------------------
(* Game: construction, joining, configuration, start; game.rs:408-616 *)

NewGameConfig ==
    [turn_time_secs |-> TURN_TIME_SECS, max_players |-> MAX_PLAYERS,
     init_action_points |-> INIT_ACTION_POINTS, init_lives |-> INIT_LIVES,
     init_range |-> INIT_RANGE, init_pos |-> "Random"]

NewGame(game_id, size) ==
    [game_id |-> game_id, phase |-> "Init", host_user_id |-> {}, players |-> EmptyMap,
     players_alive_dead |-> NewPlayersAliveDead,
     board |-> NewBoard(size), object_board |-> NewBoard(size),
     turn_end_unix |-> 0, config |-> NewGameConfig, curse_election |-> NewElection]

\* t is what now() returns
from_now(t, to_secs) == t + to_secs

\* the cells the die of coord_die yields, among those of the window
coord_die(board) == {p \in Window : p.x < board.size /\ p.y < board.size}

\* randomly_position that forgets to take the player off its old cell
randomly_position_stale(player, board) ==
    {[player |-> [player EXCEPT !.pos = pos],
      board |-> [board EXCEPT !.map = MapPut(board.map, key(pos), player.user_id)]] :
        pos \in {q \in coord_die(board) : key(q) \notin DOMAIN board.map}}

\* every outcome of randomly_position: the player leaves its cell and lands on
\* a cell the die yields that is vacant
randomly_position(player, board) ==
    LET map1 == MapDel(board.map, key(player.pos))
    IN  {[player |-> [player EXCEPT !.pos = pos],
          board |-> [board EXCEPT !.map = MapPut(map1, key(pos), player.user_id)]] :
            pos \in {q \in coord_die(board) : key(q) \notin DOMAIN map1}}

\* insert_player that does not count the players
insert_player_uncounted(g, user_id) ==
    IF user_id \in DOMAIN g.players
    THEN {[ok |-> TRUE, res |-> "Rejoined", game |-> g]}
    ELSE IF g.phase = "Init"
    THEN LET player == [NewPlayer(user_id) EXCEPT
                           !.lives = g.config.init_lives,
                           !.action_points = g.config.init_action_points,
                           !.range = g.config.init_range]
         IN  {[ok |-> TRUE, res |-> "Joined",
               game |-> [g EXCEPT
                   !.players = MapPut(g.players, user_id, player),
                   !.players_alive_dead = set_alive(g.players_alive_dead, user_id)]]}
    ELSE {[ok |-> FALSE, res |-> "game cannot be joined", game |-> g]}

\* every outcome of insert_player
insert_player(g, user_id) ==
    IF user_id \in DOMAIN g.players
    THEN {[ok |-> TRUE, res |-> "Rejoined", game |-> g]}
    ELSE IF g.phase = "Init"
    THEN IF Cardinality(DOMAIN g.players) = g.config.max_players
         THEN {[ok |-> FALSE, res |-> "game is at max capacity", game |-> g]}
         ELSE LET player == [NewPlayer(user_id) EXCEPT
                                !.lives = g.config.init_lives,
                                !.action_points = g.config.init_action_points,
                                !.range = g.config.init_range]
                  placed == IF g.config.init_pos = "Random"
                            THEN randomly_position(player, g.board)
                            ELSE {[player |-> player, board |-> g.board]}
              IN  {[ok |-> TRUE, res |-> "Joined",
                    game |-> [g EXCEPT
                        !.board = r.board,
                        !.players = MapPut(g.players, user_id, r.player),
                        !.players_alive_dead = set_alive(g.players_alive_dead, user_id)]] :
                      r \in placed}
    ELSE {[ok |-> FALSE, res |-> "game cannot be joined", game |-> g]}

\* every outcome of set_host
set_host(g, host_id) == insert_player([g EXCEPT !.host_user_id = {host_id}], host_id)

\* every outcome of a loop that visits the players of todo, in any order, and
\* randomly positions those that satisfy the test of start_game (all of them
\* when all is TRUE); a state is a [players, board] record
RECURSIVE PositionLoop(_, _, _)
PositionLoop(st, todo, all) ==
    IF todo = {} THEN {st}
    ELSE UNION {
        LET player == st.players[u]
        IN  IF all \/ player.pos.x >= st.board.size \/ player.pos.y >= st.board.size
            THEN UNION {PositionLoop([players |-> [st.players EXCEPT ![u] = r.player],
                                      board |-> r.board], todo \ {u}, all) :
                          r \in randomly_position(player, st.board)}
            ELSE PositionLoop(st, todo \ {u}, all) : u \in todo}

ConfErr(g, msg) == {[ok |-> FALSE, err |-> msg, game |-> g]}
ConfOk(g) == {[ok |-> TRUE, err |-> "", game |-> g]}

\* every outcome of configure; conf is [op, v], and [op, pos] for InitPos
configure(g, conf) ==
    IF g.phase # "Init" THEN ConfErr(g, "configuration must be during initialisation")
    ELSE CASE conf.op = "TurnTimeSecs" ->
                IF conf.v < 10 THEN ConfErr(g, "minimum of 10 seconds is required")
                ELSE IF conf.v > 60 * 60 * 24 THEN ConfErr(g, "maximum of 24 hours is required")
                ELSE ConfOk([g EXCEPT !.config.turn_time_secs = conf.v])
           [] conf.op = "MaxPlayers" ->
                IF g.board.size * g.board.size < conf.v THEN ConfErr(g, "players won't fit")
                ELSE IF Cardinality(DOMAIN g.players) > conf.v
                THEN ConfErr(g, "Cannot set max players below current player count")
                ELSE ConfOk([g EXCEPT !.config.max_players = conf.v])
           [] conf.op = "BoardSize" ->
                IF g.config.max_players > conf.v * conf.v THEN ConfErr(g, "players won't fit")
                ELSE ConfOk([g EXCEPT !.board.size = conf.v])
           [] conf.op = "InitActPts" ->
                ConfOk([g EXCEPT
                    !.players = [u \in DOMAIN g.players |->
                                    [g.players[u] EXCEPT !.action_points = conf.v]],
                    !.config.init_action_points = conf.v])
           [] conf.op = "InitLives" ->
                ConfOk([g EXCEPT
                    !.players = [u \in DOMAIN g.players |-> [g.players[u] EXCEPT !.lives = conf.v]],
                    !.config.init_lives = conf.v])
           [] conf.op = "InitRange" ->
                ConfOk([g EXCEPT
                    !.players = [u \in DOMAIN g.players |-> [g.players[u] EXCEPT !.range = conf.v]],
                    !.config.init_range = conf.v])
           [] conf.op = "InitPos" ->
                IF conf.pos = "Random"
                THEN {[ok |-> TRUE, err |-> "",
                       game |-> [g EXCEPT !.config.init_pos = conf.pos,
                                          !.players = st.players, !.board = st.board]] :
                        st \in PositionLoop([players |-> g.players, board |-> g.board],
                                            DOMAIN g.players, TRUE)}
                ELSE ConfOk([g EXCEPT !.config.init_pos = conf.pos])

\* the loop of start_game, which re-seats the players that are off the board
StartPositions(g) ==
    PositionLoop([players |-> g.players, board |-> g.board], DOMAIN g.players, FALSE)

\* start_game that forgets to check the phase
start_game_any_phase(g, t) ==
    IF Cardinality(DOMAIN g.players) < 4
    THEN ConfErr(g, "4 or more players required to start a game")
    ELSE {[ok |-> TRUE, err |-> "",
           game |-> [g EXCEPT
                !.players = st.players, !.board = st.board,
                !.curse_election.candidates = g.players_alive_dead.alive,
                !.phase = "InProg",
                !.turn_end_unix = from_now(t, g.config.turn_time_secs)]] :
            st \in StartPositions(g)}

\* start_game that is content with two players
start_game_two(g, t) ==
    IF g.phase # "Init" THEN ConfErr(g, "game already started")
    ELSE IF Cardinality(DOMAIN g.players) < 2
    THEN ConfErr(g, "4 or more players required to start a game")
    ELSE {[ok |-> TRUE, err |-> "",
           game |-> [g EXCEPT
                !.players = st.players, !.board = st.board,
                !.curse_election.candidates = g.players_alive_dead.alive,
                !.phase = "InProg",
                !.turn_end_unix = from_now(t, g.config.turn_time_secs)]] :
            st \in StartPositions(g)}

\* every outcome of start_game
start_game(g, t) ==
    IF g.phase # "Init" THEN ConfErr(g, "game already started")
    ELSE IF Cardinality(DOMAIN g.players) < 4
    THEN ConfErr(g, "4 or more players required to start a game")
    ELSE {[ok |-> TRUE, err |-> "",
           game |-> [g EXCEPT
                !.players = st.players, !.board = st.board,
                !.curse_election.candidates = g.players_alive_dead.alive,
                !.phase = "InProg",
                !.turn_end_unix = from_now(t, g.config.turn_time_secs)]] :
            st \in StartPositions(g)}

check_in_prog(g) == g.phase = "InProg"

is_end_phase(g) == g.phase = "End"

----------------------------------------------------------------------------
(* Game: turn replenishment, game.rs:623-651 *)

\* the body of the loop of replenish that gives the cursed their point too
ReplenishPlayer_curse_ignored(p, cursed) ==
    IF p.lives > 0 THEN [p EXCEPT !.action_points = @ + 1] ELSE p

\* the body of the loop of replenish: the player after its turn's point
ReplenishPlayer(p, cursed) ==
    IF p.user_id \notin cursed /\ p.lives > 0
    THEN [p EXCEPT !.action_points = @ + 1] ELSE p

\* the loop of replenish over the players in the order ord
RECURSIVE ReplenishLoop(_, _, _, _, _)
ReplenishLoop(game_id, players, cursed, ord, apu) ==
    IF ord = <<>> THEN [players |-> players, apu |-> apu]
    ELSE LET u == Head(ord)
             p == players[u]
             p1 == ReplenishPlayer(p, cursed)
         IN  ReplenishLoop(game_id, [players EXCEPT ![u] = p1], cursed, Tail(ord),
                           Append(apu, <<u, game_id, p1.action_points>>))

\* the orders in which a HashMap may yield the keys S
RECURSIVE Orders(_)
Orders(S) ==
    IF S = {} THEN {<<>>}
    ELSE UNION {{<<u>> \o t : t \in Orders(S \ {u})} : u \in S}

\* replenish that does not look at the phase
replenish_any_phase(g, t) ==
    LET r == redeem(g.curse_election)
    IN  {LET l == ReplenishLoop(g.game_id, g.players, r.res, ord, <<>>)
         IN  [ok |-> TRUE, err |-> "", apu |-> l.apu,
              game |-> [g EXCEPT
                   !.players = l.players,
                   !.curse_election = reset(r.election),
                   !.turn_end_unix = from_now(t, g.config.turn_time_secs)]] :
           ord \in Orders(DOMAIN g.players)}

\* every outcome of replenish
replenish(g, t) ==
    IF ~check_in_prog(g)
    THEN {[ok |-> FALSE, err |-> "Game not in progress", game |-> g, apu |-> <<>>]}
    ELSE LET r == redeem(g.curse_election)
         IN  {LET l == ReplenishLoop(g.game_id, g.players, r.res, ord, <<>>)
              IN  [ok |-> TRUE, err |-> "", apu |-> l.apu,
                   game |-> [g EXCEPT
                        !.players = l.players,
                        !.curse_election = reset(r.election),
                        !.turn_end_unix = from_now(t, g.config.turn_time_secs)]] :
                ord \in Orders(DOMAIN g.players)}

----------------------------------------------------------------------------
(* Game: an object moved onto the board, game.rs:577-597 and 678-792 *)

\* the moves generate_heart_spawn can return
generate_heart_spawn(g) == {[from |-> Unplaced, to |-> pos] : pos \in coord_die(g.board)}

\* game_action for ActionTypeEvent::Move(m) and obj = "heart"; the hearts board
\* maps a cell to its count of hearts
game_action(g, m) ==
    IF in_bounds(g.object_board, m.to, FALSE) # "ok"
    THEN [ok |-> FALSE, err |-> "out of range", game |-> g, event |-> "", pad |-> {}]
    ELSE LET ob1 == IF key(m.from) \in DOMAIN g.object_board.map
                    THEN [g.object_board EXCEPT !.map[key(m.from)] = @ - 1]
                    ELSE g.object_board
             g1 == [g EXCEPT !.object_board = ob1]
         IN  IF key(m.to) \in DOMAIN g1.board.map
             THEN LET uid == g1.board.map[key(m.to)]
                  IN  IF uid \notin DOMAIN g1.players
                      THEN [ok |-> FALSE, err |-> "player occupying space not found",
                            game |-> g1, event |-> "", pad |-> {}]
                      ELSE IF g1.players[uid].lives < 1
                      THEN LET g2 == [g1 EXCEPT !.players_alive_dead = set_alive(@, uid)]
                           IN  [ok |-> TRUE, err |-> "", game |-> g2, event |-> "Revive",
                                pad |-> {g2.players_alive_dead}]
                      ELSE [ok |-> TRUE, err |-> "", game |-> g1, event |-> "Heal", pad |-> {}]
             ELSE LET k == key(m.to)
                      map1 == IF k \in DOMAIN g1.object_board.map
                              THEN IF g1.object_board.map[k] > 0
                                   THEN [g1.object_board.map EXCEPT ![k] = @ + 1]
                                   ELSE g1.object_board.map
                              ELSE MapPut(g1.object_board.map, k, 1)
                  IN  [ok |-> TRUE, err |-> "", event |-> "", pad |-> {},
                       game |-> [g1 EXCEPT !.object_board.map = map1]]

----------------------------------------------------------------------------
(* Game: player actions, game.rs:653-676 and 794-1057 *)

Move(pos) == [type |-> "Move", pos |-> pos]
Attack(target, effect) == [type |-> "Attack", target_user_id |-> target, lives_effect |-> effect]
Give(target) == [type |-> "Give", target_user_id |-> target]
RangeUpgrade(cost) == [type |-> "RangeUpgrade", point_cost |-> cost]
Heal(cost) == [type |-> "Heal", point_cost |-> cost]
Revive(target) == [type |-> "Revive", target_user_id |-> target]
\* target is {} for None and {id} for Some(id)
Curse(target) == [type |-> "Curse", target_opt |-> target]

ActErr(g, msg) == [ok |-> FALSE, err |-> msg, game |-> g, apu |-> <<>>, pad |-> {}]

\* the end of player_action: the update of the acting player is appended and
\* its copy player_flux is written back
ActCommit(g, player_flux, apu, pad) ==
    [ok |-> TRUE, err |-> "",
     game |-> [g EXCEPT !.players = MapPut(g.players, player_flux.user_id, player_flux)],
     apu |-> Append(apu, <<player_flux.user_id, g.game_id, player_flux.action_points>>),
     pad |-> pad]

\* check_for_end_phase_move that does not find the player
check_for_end_phase_move_lost(g, player_id) == [ok |-> FALSE, game |-> g]

check_for_end_phase_move(g, player_id) ==
    IF player_id \notin DOMAIN g.players THEN [ok |-> FALSE, game |-> g]
    ELSE IF g.players[player_id].lives = 0 /\ alive_len(g.players_alive_dead) = 1
    THEN [ok |-> TRUE, game |-> [g EXCEPT !.phase = "End"]]
    ELSE [ok |-> TRUE, game |-> g]

ActMove(g, user_id, walk, player_flux) ==
    LET ib == in_bounds(g.board, walk.pos, TRUE)
        mv == moveable_in_prog(player_flux, walk.pos)
    IN  IF ib # "ok" THEN ActErr(g, ib)
        ELSE IF g.phase = "InProg" /\ ~is_alive(player_flux) THEN ActErr(g, "has no life")
        ELSE IF g.phase = "InProg" /\ mv # "ok" THEN ActErr(g, mv)
        ELSE IF g.phase = "Init" /\ g.config.init_pos # "Manual"
        THEN ActErr(g, "manual initial positioning must be enabled")
        ELSE LET pf1 == IF g.phase = "InProg"
                        THEN [player_flux EXCEPT !.action_points = @ - MOVE_COST]
                        ELSE player_flux
             IN  IF pf1.pos.x # USIZE_MAX /\ key(pf1.pos) \notin DOMAIN g.board.map
                 THEN ActErr(g, "player desynchronized")
                 ELSE LET map1 == IF pf1.pos.x # USIZE_MAX
                                  THEN MapDel(g.board.map, key(pf1.pos))
                                  ELSE g.board.map
                          pf2 == [pf1 EXCEPT !.pos = walk.pos]
                          g1 == [g EXCEPT !.board.map = MapPut(map1, key(pf2.pos), user_id)]
                      IN  ActCommit(g1, pf2, <<>>, {})

\* the kill that loses the points of the victim instead of transferring them
KillTransfer_lost(player_flux, target_flux) ==
    [player_flux |-> player_flux,
     target_flux |-> [target_flux EXCEPT !.action_points = 0]]

\* the kill of an Attack: the points of the victim go to the attacker
KillTransfer(player_flux, target_flux) ==
    [player_flux |-> [player_flux EXCEPT !.action_points = @ + target_flux.action_points],
     target_flux |-> [target_flux EXCEPT !.action_points = 0]]

ActAttack(g, user_id, attack, player_flux) ==
    IF ~check_in_prog(g) THEN ActErr(g, "Game not in progress")
    ELSE IF user_id = attack.target_user_id THEN ActErr(g, "Stop hurting yourself")
    ELSE IF ~is_alive(player_flux) THEN ActErr(g, "has no life")
    ELSE IF attack.target_user_id \notin DOMAIN g.players THEN ActErr(g, "player not found")
    ELSE LET target_flux == g.players[attack.target_user_id]
             mv == moveable_in_prog(player_flux, target_flux.pos)
         IN  IF ~is_alive(target_flux) THEN ActErr(g, "has no life")
             ELSE IF mv # "ok" THEN ActErr(g, mv)
             ELSE IF attack.lives_effect # ATTACK_LIVES_EFFECT
             THEN ActErr(g, "attacking must take 1 life")
             ELSE LET pf1 == [player_flux EXCEPT !.action_points = @ - ATTACK_COST]
                      tf1 == [target_flux EXCEPT !.lives = @ - ATTACK_LIVES_EFFECT]
                      kill == tf1.lives = 0
                      g1 == IF kill
                            THEN [g EXCEPT
                                    !.players_alive_dead = set_dead(@, tf1.user_id),
                                    !.curse_election = convert_candidate(@, tf1.user_id)]
                            ELSE g
                      pf2 == IF kill THEN KillTransfer(pf1, tf1).player_flux ELSE pf1
                      tf2 == IF kill THEN KillTransfer(pf1, tf1).target_flux ELSE tf1
                      apu == IF kill THEN << <<tf2.user_id, g.game_id, 0>> >> ELSE <<>>
                      g2 == IF kill /\ alive_len(g1.players_alive_dead) = 1
                            THEN [g1 EXCEPT !.phase = "End"] ELSE g1
                      pad == IF kill THEN {g2.players_alive_dead} ELSE {}
                      ce == check_for_end_phase_move(g2, tf2.user_id)
                  IN  IF ~ce.ok THEN ActErr(g2, "does not exist")
                      ELSE ActCommit([ce.game EXCEPT
                                        !.players = MapPut(@, tf2.user_id, tf2)],
                                     pf2, apu, pad)

ActGive(g, user_id, give, player_flux) ==
    IF ~check_in_prog(g) THEN ActErr(g, "Game not in progress")
    ELSE IF user_id = give.target_user_id THEN ActErr(g, "this is a futile endeavour")
    ELSE IF ~is_alive(player_flux) THEN ActErr(g, "has no life")
    ELSE IF give.target_user_id \notin DOMAIN g.players THEN ActErr(g, "player not found")
    ELSE LET target_flux == g.players[give.target_user_id]
             mv == moveable_in_prog(player_flux, target_flux.pos)
         IN  IF ~is_alive(target_flux) THEN ActErr(g, "has no life")
             ELSE IF mv # "ok" THEN ActErr(g, mv)
             ELSE LET pf1 == [player_flux EXCEPT !.action_points = @ - 1]
                      tf1 == [target_flux EXCEPT !.action_points = @ + 1]
                      apu == << <<tf1.user_id, g.game_id, tf1.action_points>> >>
                  IN  ActCommit([g EXCEPT !.players = MapPut(@, tf1.user_id, tf1)],
                                pf1, apu, {})

ActRangeUpgrade(g, user_id, range_upgrade, player_flux) ==
    IF ~check_in_prog(g) THEN ActErr(g, "Game not in progress")
    ELSE IF ~is_alive(player_flux) THEN ActErr(g, "has no life")
    ELSE IF player_flux.action_points < RANGE_UPGRADE_COST
            \/ range_upgrade.point_cost # RANGE_UPGRADE_COST
    THEN ActErr(g, "action points required to upgrade range")
    ELSE ActCommit(g, [player_flux EXCEPT !.action_points = @ - RANGE_UPGRADE_COST,
                                          !.range = @ + 1], <<>>, {})

ActHeal(g, user_id, heal, player_flux) ==
    IF ~check_in_prog(g) THEN ActErr(g, "Game not in progress")
    ELSE IF ~is_alive(player_flux) THEN ActErr(g, "has no life")
    ELSE IF player_flux.action_points < HEAL_COST \/ heal.point_cost # HEAL_COST
    THEN ActErr(g, "action points required to heal")
    ELSE ActCommit(g, [player_flux EXCEPT !.action_points = @ - HEAL_COST,
                                          !.lives = @ + 1], <<>>, {})

ActRevive(g, user_id, rev, player_flux) ==
    IF ~check_in_prog(g) THEN ActErr(g, "Game not in progress")
    ELSE IF user_id = rev.target_user_id THEN ActErr(g, "you can't revive yourself")
    ELSE IF ~is_alive(player_flux) THEN ActErr(g, "has no life")
    ELSE IF rev.target_user_id \notin DOMAIN g.players THEN ActErr(g, "player not found")
    ELSE LET target_flux == g.players[rev.target_user_id]
         IN  IF ~is_dead(target_flux) THEN ActErr(g, "is alive")
             ELSE LET pf1 == [player_flux EXCEPT !.lives = @ - 1]
                      tf1 == [target_flux EXCEPT !.lives = @ + 1]
                      g1 == [g EXCEPT
                                !.players_alive_dead = set_alive(@, tf1.user_id),
                                !.curse_election = convert_voter(@, tf1.user_id)]
                      g2 == IF pf1.lives < 1
                            THEN [g1 EXCEPT
                                    !.players_alive_dead = set_dead(@, pf1.user_id),
                                    !.curse_election = convert_candidate(@, pf1.user_id)]
                            ELSE g1
                  IN  ActCommit([g2 EXCEPT !.players = MapPut(@, tf1.user_id, tf1)],
                                pf1, <<>>, {g2.players_alive_dead})

ActCurse(g, user_id, curse, player_flux) ==
    IF ~check_in_prog(g) THEN ActErr(g, "Game not in progress")
    ELSE IF ~is_dead(player_flux) THEN ActErr(g, "is alive")
    ELSE IF curse.target_opt # {}
    THEN LET target_user_id == CHOOSE t \in curse.target_opt : TRUE
         IN  IF target_user_id \notin DOMAIN g.players THEN ActErr(g, "player not found")
             ELSE IF ~is_alive(g.players[target_user_id]) THEN ActErr(g, "has no life")
             ELSE LET v == vote(g.curse_election, user_id, target_user_id)
                  IN  IF ~v.ok THEN ActErr([g EXCEPT !.curse_election = v.election], v.err)
                      ELSE ActCommit([g EXCEPT !.curse_election = v.election],
                                     player_flux, <<>>, {})
    ELSE ActCommit([g EXCEPT !.curse_election = remove_vote(@, user_id)],
                   player_flux, <<>>, {})

player_action(g, user_id, action) ==
    IF g.phase = "End" THEN ActErr(g, "game over")
    ELSE IF user_id \notin DOMAIN g.players THEN ActErr(g, "player not found")
    ELSE LET player_flux == g.players[user_id]
         IN  CASE action.type = "Move" -> ActMove(g, user_id, action, player_flux)
               [] action.type = "Attack" -> ActAttack(g, user_id, action, player_flux)
               [] action.type = "Give" -> ActGive(g, user_id, action, player_flux)
               [] action.type = "RangeUpgrade" ->
                    ActRangeUpgrade(g, user_id, action, player_flux)
               [] action.type = "Heal" -> ActHeal(g, user_id, action, player_flux)
               [] action.type = "Revive" -> ActRevive(g, user_id, action, player_flux)
               [] action.type = "Curse" -> ActCurse(g, user_id, action, player_flux)

----------------------------------------------------------------------------
(* The supervisor's handlers, relay_server.rs *)

\* the game the claims about one game are stated of
game == games[GameId]

Hearts(g) ==
    LET m == g.object_board.map
        RECURSIVE Sum(_)
        Sum(S) == IF S = {} THEN 0 ELSE LET k == CHOOSE x \in S : TRUE IN m[k] + Sum(S \ {k})
    IN  Sum(DOMAIN m)

\* the messages a handler hands to send_user, as a bag of <<user id, message>>:
\* the order of the sends is left out
send_user(user_id, msg) == SetToBag({<<user_id, msg>>})

\* send_all: one send_user for every key
send_all(keys, msg) == SetToBag({<<k, msg>> : k \in keys})

\* one action-point update for every entry of apu
SendUpdates(apu) ==
    LET RECURSIVE Go(_)
        Go(i) == IF i > Len(apu) THEN EmptyBag
                 ELSE send_user(apu[i][1], "/action_point_update") (+) Go(i + 1)
    IN  Go(1)

\* what a handler answers when it fails before it sends or schedules anything
Refused(gs, ug, err) ==
    [ok |-> FALSE, err |-> err, games |-> gs, user_games |-> ug, out |-> EmptyBag, later |-> <<>>]

\* HostGame that binds the host to the game again when it returns to it
HostGameOut_rebinds(gs, ug, host_user_id, game_id) ==
    IF game_id \in DOMAIN gs
    THEN IF gs[game_id].host_user_id = {host_user_id}
         THEN {[ok |-> TRUE, err |-> "", games |-> gs, later |-> <<>>,
                user_games |-> MapPut(ug, host_user_id, game_id),
                out |-> send_user(host_user_id, "/host_game_success")
                        (+) send_user(host_user_id, "/action_point_update")
                        (+) send_user(host_user_id, "/alert rejoined game")]}
         ELSE {Refused(gs, ug, "exists")}
    ELSE IF /\ host_user_id \in DOMAIN ug
            /\ ug[host_user_id] \in DOMAIN gs
            /\ gs[ug[host_user_id]].host_user_id = {host_user_id}
    THEN {Refused(gs, ug, "already in another game")}
    ELSE {IF ~r.ok THEN Refused(gs, ug, r.res)
          ELSE [ok |-> TRUE, err |-> "", later |-> <<>>,
                games |-> MapPut(gs, game_id, r.game),
                user_games |-> MapPut(ug, host_user_id, game_id),
                out |-> send_user(host_user_id, "/host_game_success")
                        (+) send_user(host_user_id, "/action_point_update")
                        (+) send_user(host_user_id, "/alert new game created")] :
            r \in set_host(NewGame(game_id, BOARD_SIZE), host_user_id)}

\* Handler<HostGame>: every outcome on the games gs and the bindings ug
HostGameOut(gs, ug, host_user_id, game_id) ==
    IF game_id \in DOMAIN gs
    THEN IF gs[game_id].host_user_id = {host_user_id}
         THEN {[ok |-> TRUE, err |-> "", games |-> gs, user_games |-> ug, later |-> <<>>,
                out |-> send_user(host_user_id, "/host_game_success")
                        (+) send_user(host_user_id, "/action_point_update")
                        (+) send_user(host_user_id, "/alert rejoined game")]}
         ELSE {Refused(gs, ug, "exists")}
    ELSE IF /\ host_user_id \in DOMAIN ug
            /\ ug[host_user_id] \in DOMAIN gs
            /\ gs[ug[host_user_id]].host_user_id = {host_user_id}
    THEN {Refused(gs, ug, "already in another game")}
    ELSE {IF ~r.ok THEN Refused(gs, ug, r.res)
          ELSE [ok |-> TRUE, err |-> "", later |-> <<>>,
                games |-> MapPut(gs, game_id, r.game),
                user_games |-> MapPut(ug, host_user_id, game_id),
                out |-> send_user(host_user_id, "/host_game_success")
                        (+) send_user(host_user_id, "/action_point_update")
                        (+) send_user(host_user_id, "/alert new game created")] :
            r \in set_host(NewGame(game_id, BOARD_SIZE), host_user_id)}

HostGame(host_user_id, game_id) ==
    \E r \in HostGameOut(games, user_games, host_user_id, game_id) :
        /\ games' = r.games
        /\ user_games' = r.user_games
        /\ UNCHANGED <<timers, now, users, sessions, notified, election, count>>

\* JoinGame that tells the other players of every join, new or not
JoinGameOut_tells_all(gs, ug, user_id, game_id) ==
    IF user_id \in DOMAIN ug /\ ug[user_id] # game_id
    THEN {Refused(gs, ug, "already in a another game")}
    ELSE IF game_id \notin DOMAIN gs THEN {Refused(gs, ug, "game not found")}
    ELSE {IF ~r.ok
          THEN [Refused(gs, ug, r.res) EXCEPT !.games = [gs EXCEPT ![game_id] = r.game]]
          ELSE [ok |-> TRUE, err |-> "", later |-> <<>>, res |-> r.res,
                games |-> [gs EXCEPT ![game_id] = r.game],
                user_games |-> IF ~is_end_phase(r.game)
                               THEN MapPut(ug, user_id, game_id) ELSE ug,
                out |-> send_all(DOMAIN r.game.players \ {user_id}, "/player_joined")
                        (+) send_user(user_id, "/join_game_success")
                        (+) send_user(user_id, "/action_point_update")] :
            r \in insert_player(gs[game_id], user_id)}

\* Handler<JoinGame>: every outcome on the games gs and the bindings ug
JoinGameOut(gs, ug, user_id, game_id) ==
    IF user_id \in DOMAIN ug /\ ug[user_id] # game_id
    THEN {Refused(gs, ug, "already in a another game")}
    ELSE IF game_id \notin DOMAIN gs THEN {Refused(gs, ug, "game not found")}
    ELSE {IF ~r.ok
          THEN [Refused(gs, ug, r.res) EXCEPT !.games = [gs EXCEPT ![game_id] = r.game]]
          ELSE [ok |-> TRUE, err |-> "", later |-> <<>>, res |-> r.res,
                games |-> [gs EXCEPT ![game_id] = r.game],
                user_games |-> IF ~is_end_phase(r.game)
                               THEN MapPut(ug, user_id, game_id) ELSE ug,
                out |-> (IF r.res = "Joined"
                         THEN send_all(DOMAIN r.game.players \ {user_id}, "/player_joined")
                         ELSE EmptyBag)
                        (+) send_user(user_id, "/join_game_success")
                        (+) send_user(user_id, "/action_point_update")] :
            r \in insert_player(gs[game_id], user_id)}

JoinGame(user_id, game_id) ==
    \E r \in JoinGameOut(games, user_games, user_id, game_id) :
        /\ games' = r.games
        /\ user_games' = r.user_games
        /\ UNCHANGED <<timers, now, users, sessions, notified, election, count>>

\* ConfigGame that does not ask who sends it
ConfigGameOut_any_user(gs, game_id, user_id, op) ==
    IF game_id \notin DOMAIN gs
    THEN {[Refused(gs, EmptyMap, "Game not found") EXCEPT
              !.out = send_user(user_id, "/error conf_game")]}
    ELSE {IF ~r.ok
          THEN [Refused(gs, EmptyMap, r.err) EXCEPT
                   !.games = [gs EXCEPT ![game_id] = r.game],
                   !.out = send_user(user_id, "/error conf_game")]
          ELSE [ok |-> TRUE, err |-> "", user_games |-> EmptyMap, later |-> <<>>,
                games |-> [gs EXCEPT ![game_id] = r.game],
                out |-> send_all(DOMAIN r.game.players, "/conf_game")] :
            r \in configure(gs[game_id], op)}

\* Handler<ConfigGame>: every outcome on the games gs
ConfigGameOut(gs, game_id, user_id, op) ==
    IF game_id \notin DOMAIN gs
    THEN {[Refused(gs, EmptyMap, "Game not found") EXCEPT
              !.out = send_user(user_id, "/error conf_game")]}
    ELSE IF gs[game_id].host_user_id # {user_id}
    THEN {[Refused(gs, EmptyMap, "only host can configure game") EXCEPT
              !.out = send_user(user_id, "/error conf_game")]}
    ELSE {IF ~r.ok
          THEN [Refused(gs, EmptyMap, r.err) EXCEPT
                   !.games = [gs EXCEPT ![game_id] = r.game],
                   !.out = send_user(user_id, "/error conf_game")]
          ELSE [ok |-> TRUE, err |-> "", user_games |-> EmptyMap, later |-> <<>>,
                games |-> [gs EXCEPT ![game_id] = r.game],
                out |-> send_all(DOMAIN r.game.players, "/conf_game")] :
            r \in configure(gs[game_id], op)}

ConfigGame(game_id, user_id, op) ==
    \E r \in ConfigGameOut(games, game_id, user_id, op) :
        /\ games' = r.games
        /\ UNCHANGED <<user_games, timers, now, users, sessions, notified, election, count>>

\* StartGame that schedules a Replenish whenever the host asks, started or not
StartGameOut_always_schedules(gs, game_id, user_id, t) ==
    IF game_id \notin DOMAIN gs THEN {Refused(gs, EmptyMap, "Game not found")}
    ELSE IF gs[game_id].host_user_id # {user_id}
    THEN {Refused(gs, EmptyMap, "Only host can start game")}
    ELSE {[ok |-> r.ok, err |-> r.err, user_games |-> EmptyMap,
           games |-> [gs EXCEPT ![game_id] = r.game],
           out |-> IF r.ok THEN send_all(DOMAIN r.game.players, "/start_game")
                                (+) send_all(DOMAIN r.game.players, "/action_point_update")
                   ELSE EmptyBag,
           later |-> <<[game_id |-> r.game.game_id,
                        due |-> t + r.game.config.turn_time_secs]>>] :
            r \in start_game(gs[game_id], t)}

\* Handler<StartGame> at time t: every outcome on the games gs; later holds
\* the Replenish it schedules
StartGameOut(gs, game_id, user_id, t) ==
    IF game_id \notin DOMAIN gs THEN {Refused(gs, EmptyMap, "Game not found")}
    ELSE IF gs[game_id].host_user_id # {user_id}
    THEN {Refused(gs, EmptyMap, "Only host can start game")}
    ELSE {IF ~r.ok
          THEN [Refused(gs, EmptyMap, r.err) EXCEPT !.games = [gs EXCEPT ![game_id] = r.game]]
          ELSE [ok |-> TRUE, err |-> "", user_games |-> EmptyMap,
                games |-> [gs EXCEPT ![game_id] = r.game],
                out |-> send_all(DOMAIN r.game.players, "/start_game")
                        (+) send_all(DOMAIN r.game.players, "/action_point_update"),
                later |-> <<[game_id |-> r.game.game_id,
                             due |-> t + r.game.config.turn_time_secs]>>] :
            r \in start_game(gs[game_id], t)}

StartGame(game_id, user_id) ==
    \E r \in StartGameOut(games, game_id, user_id, now) :
        /\ games' = r.games
        /\ timers' = timers \o r.later
        /\ UNCHANGED <<user_games, now, users, sessions, notified, election, count>>

\* PlayerActionRequest that leaves the players of a game that ended bound to it
PlayerActionOut_keeps_bindings(gs, ug, user_id, game_id, action) ==
    LET Err(e) == [ok |-> FALSE, err |-> e, games |-> gs, user_games |-> ug,
                   out |-> send_user(user_id, "/error player_action"),
                   notify |-> EmptyBag]
    IN  IF user_id \notin DOMAIN ug THEN Err("user games not found")
        ELSE IF ug[user_id] # game_id THEN Err("user game id invalid")
        ELSE IF game_id \notin DOMAIN gs THEN Err("game id bad")
        ELSE LET r == player_action(gs[game_id], user_id, action)
                 over == is_end_phase(r.game)
             IN  IF ~r.ok THEN [Err(r.err) EXCEPT !.games = [gs EXCEPT ![game_id] = r.game]]
                 ELSE [ok |-> TRUE, err |-> "",
                       games |-> [gs EXCEPT ![game_id] = r.game],
                       user_games |-> ug,
                       notify |-> IF over THEN SetToBag(DOMAIN r.game.players)
                                  ELSE EmptyBag,
                       out |-> SendUpdates(r.apu)
                               (+) send_all(DOMAIN r.game.players, "/player_action")]

\* PlayerActionRequest that does not look the user up in user_games
PlayerActionOut_unchecked(gs, ug, user_id, game_id, action) ==
    LET Err(e) == [ok |-> FALSE, err |-> e, games |-> gs, user_games |-> ug,
                   out |-> send_user(user_id, "/error player_action"),
                   notify |-> EmptyBag]
    IN  IF game_id \notin DOMAIN gs THEN Err("game id bad")
        ELSE LET r == player_action(gs[game_id], user_id, action)
                 over == is_end_phase(r.game)
             IN  IF ~r.ok THEN [Err(r.err) EXCEPT !.games = [gs EXCEPT ![game_id] = r.game]]
                 ELSE [ok |-> TRUE, err |-> "",
                       games |-> [gs EXCEPT ![game_id] = r.game],
                       user_games |-> IF over
                                      THEN [u \in (DOMAIN ug) \ (DOMAIN r.game.players) |->
                                                ug[u]]
                                      ELSE ug,
                       notify |-> IF over THEN SetToBag(DOMAIN r.game.players)
                                  ELSE EmptyBag,
                       out |-> SendUpdates(r.apu)
                               (+) send_all(DOMAIN r.game.players, "/player_action")]

\* Handler<PlayerActionRequest>: the outcome on the games gs and the bindings
\* ug; notify holds the users it queues a UserStatus for
PlayerActionOut(gs, ug, user_id, game_id, action) ==
    LET Err(e) == [ok |-> FALSE, err |-> e, games |-> gs, user_games |-> ug,
                   out |-> send_user(user_id, "/error player_action"),
                   notify |-> EmptyBag]
    IN  IF user_id \notin DOMAIN ug THEN Err("user games not found")
        ELSE IF ug[user_id] # game_id THEN Err("user game id invalid")
        ELSE IF game_id \notin DOMAIN gs THEN Err("game id bad")
        ELSE LET r == player_action(gs[game_id], user_id, action)
                 over == is_end_phase(r.game)
             IN  IF ~r.ok THEN [Err(r.err) EXCEPT !.games = [gs EXCEPT ![game_id] = r.game]]
                 ELSE [ok |-> TRUE, err |-> "",
                       games |-> [gs EXCEPT ![game_id] = r.game],
                       user_games |-> IF over
                                      THEN [u \in (DOMAIN ug) \ (DOMAIN r.game.players) |->
                                                ug[u]]
                                      ELSE ug,
                       notify |-> IF over THEN SetToBag(DOMAIN r.game.players)
                                  ELSE EmptyBag,
                       out |-> SendUpdates(r.apu)
                               (+) send_all(DOMAIN r.game.players, "/player_action")]

PlayerActionRequest(user_id, game_id, action) ==
    LET r == PlayerActionOut(games, user_games, user_id, game_id, action)
    IN  /\ games' = r.games
        /\ user_games' = r.user_games
        /\ notified' = notified (+) r.notify
        /\ UNCHANGED <<timers, now, users, sessions, election, count>>

\* Handler<UserStatus>: the game id the status names, none or one
UserStatusOut(gs, ug, user_id) ==
    LET game_id == IF /\ user_id \in DOMAIN ug
                      /\ ug[user_id] \in DOMAIN gs
                      /\ user_id \in DOMAIN gs[ug[user_id]].players
                   THEN {gs[ug[user_id]].game_id} ELSE {}
    IN  [game_id |-> game_id, out |-> send_user(user_id, "/user_status")]

\* a queued UserStatus is handled: it changes neither games nor bindings
UserStatus(user_id) ==
    /\ BagIn(user_id, notified)
    /\ notified' = notified (-) SetToBag({user_id})
    /\ UNCHANGED <<games, user_games, timers, now, users, sessions, election, count>>

\* Handler<Replenish> at time t: every outcome on the games gs; later holds
\* the Replenish it schedules
ReplenishOut(gs, game_id, t) ==
    IF game_id \notin DOMAIN gs THEN {Refused(gs, EmptyMap, "Game not found")}
    ELSE {IF ~r.ok
          THEN [Refused(gs, EmptyMap, r.err) EXCEPT !.games = [gs EXCEPT ![game_id] = r.game]]
          ELSE [ok |-> TRUE, err |-> "", user_games |-> EmptyMap,
                games |-> [gs EXCEPT ![game_id] = r.game],
                out |-> SendUpdates(r.apu),
                later |-> <<[game_id |-> game_id,
                             due |-> t + r.game.config.turn_time_secs]>>] :
            r \in replenish(gs[game_id], t)}

\* the scheduled message that is due first is delivered, at the time it is due
Replenish ==
    /\ timers # <<>>
    /\ Head(timers).due <= MaxNow
    /\ now' = IF Head(timers).due > now THEN Head(timers).due ELSE now
    /\ \E r \in ReplenishOut(games, Head(timers).game_id, now') :
            /\ games' = r.games
            /\ timers' = Tail(timers) \o r.later
    /\ UNCHANGED <<user_games, users, sessions, notified, election, count>>

\* the handler of a heart spawn acts on games in progress only
SpawnHeartGuard == GameId \in DOMAIN games /\ game.phase = "InProg"

SpawnHeart ==
    /\ SpawnHeartGuard
    /\ \E m \in generate_heart_spawn(game) :
          LET r == game_action(game, m)
          IN  /\ Hearts(r.game) <= MaxHearts
              /\ games' = [games EXCEPT ![GameId] = r.game]
    /\ UNCHANGED <<user_games, timers, now, users, sessions, notified, election, count>>

----------------------------------------------------------------------------
(* Play: a lobby of four seated players, then the whole game *)

\* the outcome of insert_player that seats user_id on pos
Seat(g, user_id, pos) ==
    (CHOOSE r \in insert_player(g, user_id) : r.ok /\ r.game.players[user_id].pos = pos).game

\* the sessions of a server nobody has connected to
NewSessions == [map |-> EmptyMap, verification_keys |-> EmptyMap]

Lobby ==
    LET g0 == (CHOOSE r \in HostGameOut(EmptyMap, EmptyMap, Host, GameId) :
                    r.games[GameId].players[Host].pos = Pos(0, 0)).games[GameId]
    IN  Seat(Seat(Seat(g0, "b", Pos(0, 1)), "c", Pos(1, 0)), "d", Pos(1, 1))

Init ==
    /\ games = [k \in {GameId} |-> Lobby]
    /\ user_games = [u \in Users |-> GameId]
    /\ timers = <<>>
    /\ now = 0
    /\ users = EmptyMap
    /\ sessions = NewSessions
    /\ notified = EmptyBag
    /\ election = Election_new
    /\ count = NoCount

ConfOps == {[op |-> "InitLives", v |-> 0], [op |-> "InitLives", v |-> 1]}

Targets == Users \cup {Stranger}

\* the users that send every request of PlayerActions: the host, and a user
\* that is not in the game
Actors == {Host, Stranger}

\* the player that sends the requests of RivalActions
Rival == "b"

PlayerActions ==
    {Move(pos) : pos \in {FarCell, Pos(0, 0), Unplaced}}
    \cup {Attack(t, ATTACK_LIVES_EFFECT) : t \in Targets} \cup {Attack("c", 2)}
    \cup {Give(t) : t \in Targets}
    \cup {RangeUpgrade(c) : c \in {RANGE_UPGRADE_COST, 2}}
    \cup {Heal(c) : c \in {HEAL_COST, 2}}
    \cup {Revive(t) : t \in Targets}
    \cup {Curse(t) : t \in {{}, {"c"}, {"a"}}}

\* the requests of the rival: it attacks, feeds and curses the host, attacks
\* and revives a third player and withdraws its vote
RivalActions ==
    {Attack(Host, ATTACK_LIVES_EFFECT), Attack("c", ATTACK_LIVES_EFFECT), Give(Host),
     Revive("c"), Curse({Host}), Curse({})}

Next ==
    \/ \E game_id \in {GameId, OtherGame} : HostGame(Host, game_id)
    \/ \E u \in Users \cup {Stranger} : JoinGame(u, GameId)
    \/ \E u \in {Host, "b"}, op \in ConfOps : ConfigGame(GameId, u, op)
    \/ \E u \in {Host, "b"} : StartGame(GameId, u)
    \/ StartGame(OtherGame, Host)
    \/ \E u \in Actors, action \in PlayerActions : PlayerActionRequest(u, GameId, action)
    \/ \E action \in RivalActions : PlayerActionRequest(Rival, GameId, action)
    \/ Replenish
    \/ SpawnHeart
    \/ \E u \in Users : UserStatus(u)

Spec == Init /\ [][Next]_vars

----------------------------------------------------------------------------
(* Setup: a game from its creation, its configuration, seating and start *)

InitSetup ==
    /\ \E r \in HostGameOut(EmptyMap, EmptyMap, Host, GameId) :
          games = r.games /\ user_games = r.user_games
    /\ timers = <<>>
    /\ now = 0
    /\ users = EmptyMap
    /\ sessions = NewSessions
    /\ notified = EmptyBag
    /\ election = Election_new
    /\ count = NoCount

SetupConfOps ==
    {[op |-> "MaxPlayers", v |-> 4], [op |-> "BoardSize", v |-> 2],
     [op |-> "InitPos", pos |-> "Manual"], [op |-> "InitPos", pos |-> "Random"]}

SetupActions == {Move(pos) : pos \in Window \cup {FarCell, Unplaced}}

NextSetup ==
    \/ \E u \in {Host, "b"}, game_id \in {GameId, OtherGame} : HostGame(u, game_id)
    \/ \E u \in Users : JoinGame(u, GameId)
    \/ \E u \in {Host, "b"}, op \in SetupConfOps : ConfigGame(GameId, u, op)
    \/ \E u \in {Host, "b"} : StartGame(GameId, u)
    \/ \E u \in Users, action \in SetupActions : PlayerActionRequest(u, GameId, action)

SpecSetup == InitSetup /\ [][NextSetup]_vars

----------------------------------------------------------------------------
(* Election: the preferential tally, election.rs *)

\* PrefBallot and its order: by the number of preferences, then by the voter
PrefBallot(prefs, voter) == [prefs |-> prefs, voter |-> voter]

\* what Ord compares of a ballot; ballots_ordered holds one ballot for each
\* rank, and the code reads nothing of a ballot it holds but prefs.len()
Rank(ballot) == [len |-> Len(ballot.prefs), voter |-> ballot.voter]

\* BTreeSet::insert keeps the element it holds when an equal one is inserted
BTreeInsert(S, x) == S \cup {Rank(x)}

BTreeRemove(S, x) == S \ {Rank(x)}

\* the result of an operation of the election
ElOk(e) == [ok |-> TRUE, err |-> "", el |-> e]

ElErr(e, err) == [ok |-> FALSE, err |-> err, el |-> e]

set_candidates(e, candidates) == [e EXCEPT !.candidates = candidates]

set_voters(e, voters) == [e EXCEPT !.voters = voters]

check_open(e) == IF e.open THEN "ok" ELSE "closed to new votes"

check_voter_id(e, voter_id) == IF voter_id \in e.voters THEN "ok" ELSE "not a voter"

check_candidate_id(e, candidate_id) ==
    IF candidate_id \in e.candidates THEN "ok" ELSE "not a candidate"

remove_ballot(e, voter_id) ==
    IF check_open(e) # "ok" THEN ElErr(e, check_open(e))
    ELSE IF check_voter_id(e, voter_id) # "ok" THEN ElErr(e, check_voter_id(e, voter_id))
    ELSE IF voter_id \notin DOMAIN e.voter_ballots THEN ElOk(e)
    ELSE LET old_vote == e.voter_ballots[voter_id]
         IN  ElOk([e EXCEPT
                !.vote_count = IF old_vote.allocated \in DOMAIN e.vote_count
                               THEN [e.vote_count EXCEPT ![old_vote.allocated] = @ \ {old_vote}]
                               ELSE e.vote_count,
                !.voter_ballots = MapDel(e.voter_ballots, voter_id),
                !.ballots_ordered = BTreeRemove(e.ballots_ordered, old_vote.ballot)])

\* the first preference that is not a candidate, if any
BadCandidate(e, prefs) ==
    {i \in 1..Len(prefs) : /\ check_candidate_id(e, prefs[i]) # "ok"
                           /\ \A j \in 1..(i - 1) : check_candidate_id(e, prefs[j]) = "ok"}

\* vote that adds the new ballot and leaves the voter's old one in place
Election_vote_keeps_old(e0, voter_id, prefs) ==
    LET r == remove_ballot(e0, voter_id)
        e == e0
    IN  IF ~r.ok THEN ElErr(e0, r.err)
        ELSE IF Len(prefs) < 1 \/ Len(prefs) > Cardinality(e.candidates)
        THEN ElErr(e, "bad ballot preferences")
        ELSE IF BadCandidate(e, prefs) # {} THEN ElErr(e, "not a candidate")
        ELSE IF Cardinality({prefs[i] : i \in 1..Len(prefs)}) # Len(prefs)
        THEN ElErr(e, "ballot contains duplicates")
        ELSE LET ballot == PrefBallot(prefs, voter_id)
                 ballot_alloc == [ballot |-> ballot, allocated |-> prefs[1]]
                 vc == IF ballot_alloc.allocated \in DOMAIN e.vote_count THEN e.vote_count
                       ELSE MapPut(e.vote_count, ballot_alloc.allocated, {})
             IN  ElOk([e EXCEPT
                    !.ballots_ordered = BTreeInsert(e.ballots_ordered, ballot),
                    !.vote_count = [vc EXCEPT ![ballot_alloc.allocated] = @ \cup {ballot_alloc}],
                    !.voter_ballots = MapPut(e.voter_ballots, voter_id, ballot_alloc)])

\* Election::vote: the old ballot is removed first, then the new one is
\* validated, on the election without the old ballot
Election_vote(e0, voter_id, prefs) ==
    LET r == remove_ballot(e0, voter_id)
        e == r.el
    IN  IF ~r.ok THEN ElErr(e0, r.err)
        ELSE IF Len(prefs) < 1 \/ Len(prefs) > Cardinality(e.candidates)
        THEN ElErr(e, "bad ballot preferences")
        ELSE IF BadCandidate(e, prefs) # {} THEN ElErr(e, "not a candidate")
        ELSE IF Cardinality({prefs[i] : i \in 1..Len(prefs)}) # Len(prefs)
        THEN ElErr(e, "ballot contains duplicates")
        ELSE LET ballot == PrefBallot(prefs, voter_id)
                 ballot_alloc == [ballot |-> ballot, allocated |-> prefs[1]]
                 vc == IF ballot_alloc.allocated \in DOMAIN e.vote_count THEN e.vote_count
                       ELSE MapPut(e.vote_count, ballot_alloc.allocated, {})
             IN  ElOk([e EXCEPT
                    !.ballots_ordered = BTreeInsert(e.ballots_ordered, ballot),
                    !.vote_count = [vc EXCEPT ![ballot_alloc.allocated] = @ \cup {ballot_alloc}],
                    !.voter_ballots = MapPut(e.voter_ballots, voter_id, ballot_alloc)])

move_voter_to_candidate(e0, voter_id) ==
    IF check_voter_id(e0, voter_id) # "ok" THEN ElErr(e0, check_voter_id(e0, voter_id))
    ELSE LET r == remove_ballot(e0, voter_id)
             e == r.el
         IN  IF ~r.ok THEN ElErr(e0, r.err)
             ELSE ElOk([e EXCEPT !.voters = @ \ {voter_id},
                                 !.candidates = @ \cup {voter_id},
                                 !.vote_count = MapPut(e.vote_count, voter_id, {})])

move_candidate_to_voter(e, candidate_id) ==
    IF check_candidate_id(e, candidate_id) # "ok"
    THEN ElErr(e, check_candidate_id(e, candidate_id))
    ELSE IF check_open(e) # "ok" THEN ElErr(e, check_open(e))
    ELSE LET gone == IF candidate_id \in DOMAIN e.vote_count
                     THEN {v.ballot.voter : v \in e.vote_count[candidate_id]} ELSE {}
         IN  ElOk([e EXCEPT
                !.candidates = @ \ {candidate_id},
                !.voter_ballots = [v \in (DOMAIN e.voter_ballots) \ gone |-> e.voter_ballots[v]],
                !.vote_count = MapDel(e.vote_count, candidate_id),
                !.voters = @ \cup {candidate_id}])

get_voter_ballot(e, voter_id) ==
    IF voter_id \in DOMAIN e.voter_ballots
    THEN {e.voter_ballots[voter_id].ballot.prefs[1]} ELSE {}

\* the loop of get_winners over the entries of vote_count in the order ord
RECURSIVE WinnersLoop(_, _, _, _, _)
WinnersLoop(vc, ord, i, best, winners) ==
    IF i > Len(ord) THEN winners
    ELSE LET n == Cardinality(vc[ord[i]])
         IN  IF n = best THEN WinnersLoop(vc, ord, i + 1, best, winners \cup {ord[i]})
             ELSE IF n > best THEN WinnersLoop(vc, ord, i + 1, n, {ord[i]})
             ELSE WinnersLoop(vc, ord, i + 1, best, winners)

\* get_winners that also counts the candidates nobody voted for
get_winners_from_zero(e) ==
    {[winners |-> WinnersLoop(e.vote_count, ord, 1, 0, {}), el |-> e] :
        ord \in Orders(DOMAIN e.vote_count)}

\* every outcome of get_winners: the winners and the election afterwards
get_winners(e) ==
    {[winners |-> WinnersLoop(e.vote_count, ord, 1, 1, {}), el |-> e] :
        ord \in Orders(DOMAIN e.vote_count)}

\* step 1 of a round: the highest count and the lowest positive count the
\* loop finds when vote_count yields its entries in the order ord
RECURSIVE MinMaxLoop(_, _, _, _)
MinMaxLoop(vc, ord, i, acc) ==
    IF i > Len(ord) THEN acc
    ELSE LET n == Cardinality(vc[ord[i]])
         IN  IF n > acc.max THEN MinMaxLoop(vc, ord, i + 1, [acc EXCEPT !.max = n])
             ELSE IF n = acc.max THEN MinMaxLoop(vc, ord, i + 1, acc)
             ELSE IF n > 0 /\ n < acc.min
             THEN MinMaxLoop(vc, ord, i + 1, [acc EXCEPT !.min = n, !.min_id = ord[i]])
             ELSE MinMaxLoop(vc, ord, i + 1, acc)

\* step 4 of a round: the ballots of the lowest candidate go to their
\* preference number pref (counted from 0), those without one are dropped
Redistribute(e, min_id, pref) ==
    LET min_ballots == e.vote_count[min_id]
        moved == {[b EXCEPT !.allocated = b.ballot.prefs[pref + 1]] :
                    b \in {x \in min_ballots : Len(x.ballot.prefs) > pref}}
        vc1 == [e.vote_count EXCEPT ![min_id] = {}]
        keys == (DOMAIN vc1) \cup {m.allocated : m \in moved}
    IN  [e EXCEPT
            !.vote_count = [k \in keys |->
                               (IF k \in DOMAIN vc1 THEN vc1[k] ELSE {})
                               \cup {m \in moved : m.allocated = k}],
            !.voter_ballots = [v \in (DOMAIN e.voter_ballots)
                                       \cup {m.ballot.voter : m \in moved} |->
                                  IF \E m \in moved : m.ballot.voter = v
                                  THEN CHOOSE m \in moved : m.ballot.voter = v
                                  ELSE e.voter_ballots[v]]]

\* the rounds of apply_preferential_voting from preference index pref on
RECURSIVE Rounds(_, _, _, _)
Rounds(e, pref, half, max_prefs) ==
    UNION {LET acc == MinMaxLoop(e.vote_count, ord, 1,
                                 [max |-> 0, min |-> USIZE_MAX, min_id |-> ""])
           IN  IF acc.max <= half /\ pref < max_prefs /\ acc.min < acc.max
               THEN Rounds(Redistribute(e, acc.min_id, pref + 1), pref + 1, half, max_prefs)
               ELSE {e} :
             ord \in Orders(DOMAIN e.vote_count)}

\* every outcome of apply_preferential_voting
apply_preferential_voting(e0) ==
    LET e == [e0 EXCEPT !.open = FALSE, !.init_vote_count = {e0.vote_count}]
        lens == {b.len : b \in e.ballots_ordered}
    IN  IF e.ballots_ordered = {}
        THEN {ElErr(e, "max length of preferences unavailable")}
        ELSE {ElOk(x) : x \in Rounds(e, 0, Cardinality(DOMAIN e.voter_ballots) \div 2,
                                     CHOOSE n \in lens : \A m \in lens : m <= n)}

\* reset that reopens the election and keeps its ballots
Election_reset_keeps_ballots(e) == [e EXCEPT !.open = TRUE, !.init_vote_count = {}]

\* Election::reset
Election_reset(e) ==
    [e EXCEPT !.open = TRUE, !.vote_count = EmptyMap, !.init_vote_count = {},
              !.voter_ballots = EmptyMap]

\* the ids of candidates and voters, and the ranked lists the votes carry:
\* an empty one, three good ones, one with a repeat, one for an id that is
\* never a candidate
ElIds == {"a", "b", "c", "d"}

PrefLists == {<<>>, <<"a", "b">>, <<"b", "a">>, <<"c">>, <<"a", "a">>, <<"e">>}

SetCandidates(S) ==
    /\ election' = set_candidates(election, S)
    /\ UNCHANGED <<games, user_games, timers, now, users, sessions, notified, count>>

SetVoters(S) ==
    /\ election' = set_voters(election, S)
    /\ UNCHANGED <<games, user_games, timers, now, users, sessions, notified, count>>

Vote(voter_id, prefs) ==
    /\ election' = Election_vote(election, voter_id, prefs).el
    /\ UNCHANGED <<games, user_games, timers, now, users, sessions, notified, count>>

RemoveBallot(voter_id) ==
    /\ election' = remove_ballot(election, voter_id).el
    /\ UNCHANGED <<games, user_games, timers, now, users, sessions, notified, count>>

MoveVoterToCandidate(id) ==
    /\ election' = move_voter_to_candidate(election, id).el
    /\ UNCHANGED <<games, user_games, timers, now, users, sessions, notified, count>>

MoveCandidateToVoter(id) ==
    /\ election' = move_candidate_to_voter(election, id).el
    /\ UNCHANGED <<games, user_games, timers, now, users, sessions, notified, count>>

GetWinners ==
    /\ \E r \in get_winners(election) : election' = r.el
    /\ UNCHANGED <<games, user_games, timers, now, users, sessions, notified, count>>

ApplyPreferentialVoting ==
    /\ \E r \in apply_preferential_voting(election) : election' = r.el
    /\ UNCHANGED <<games, user_games, timers, now, users, sessions, notified, count>>

Reset ==
    /\ election' = Election_reset(election)
    /\ UNCHANGED <<games, user_games, timers, now, users, sessions, notified, count>>

\* a server without games, and an election as Election::new creates it
InitElection ==
    /\ games = EmptyMap
    /\ user_games = EmptyMap
    /\ timers = <<>>
    /\ now = 0
    /\ users = EmptyMap
    /\ sessions = [map |-> EmptyMap, verification_keys |-> EmptyMap]
    /\ notified = EmptyBag
    /\ election = Election_new
    /\ count = NoCount

NextElection ==
    \/ SetCandidates({"a", "b", "c"})
    \/ SetVoters(ElIds)
    \/ \E v \in ElIds, prefs \in PrefLists : Vote(v, prefs)
    \/ \E v \in ElIds : RemoveBallot(v)
    \/ MoveVoterToCandidate("c")
    \/ MoveCandidateToVoter("c")
    \/ GetWinners
    \/ ApplyPreferentialVoting
    \/ Reset

SpecElection == InitElection /\ [][NextElection]_vars

----------------------------------------------------------------------------
(* The count: apply_preferential_voting, one traversal step at a time *)

\* a call on the election, as the tests make them
Call(op, id, prefs, ids) == [op |-> op, id |-> id, prefs |-> prefs, ids |-> ids]

\* the election after the calls of a script, from Election::new on
RECURSIVE Run(_, _, _)
Run(e, script, i) ==
    IF i > Len(script) THEN e
    ELSE LET c == script[i]
         IN  Run(CASE c.op = "set_candidates" -> set_candidates(e, c.ids)
                   [] c.op = "set_voters" -> set_voters(e, c.ids)
                   [] c.op = "vote" -> Election_vote(e, c.id, c.prefs).el
                   [] c.op = "move_candidate_to_voter" -> move_candidate_to_voter(e, c.id).el
                   [] c.op = "reset" -> Election_reset(e),
                 script, i + 1)

\* test_orphaned_ballots_preferential: eleven voters, five candidates
Orphaned ==
    <<Call("set_candidates", "", <<>>, {"a", "b", "c", "d", "_"}),
      Call("set_voters", "", <<>>, {"a", "b", "c", "d", "e", "f", "g", "h", "i", "j", "k"}),
      Call("vote", "a", <<"a">>, {}), Call("vote", "b", <<"a">>, {}),
      Call("vote", "c", <<"a">>, {}), Call("vote", "d", <<"a">>, {}),
      Call("vote", "e", <<"b">>, {}), Call("vote", "f", <<"b">>, {}),
      Call("vote", "g", <<"b">>, {}), Call("vote", "h", <<"b">>, {}),
      Call("vote", "i", <<"c", "_", "a">>, {}),
      Call("vote", "j", <<"c", "_", "d", "a">>, {}),
      Call("vote", "k", <<"d", "c", "b">>, {})>>

\* test_preferential_voting_random: two candidates tied for the minimum
Random ==
    <<Call("set_candidates", "", <<>>, {"a", "b", "c"}),
      Call("set_voters", "", <<>>, {"a", "b", "c", "d"}),
      Call("vote", "a", <<"c", "b", "a">>, {}), Call("vote", "b", <<"a", "c">>, {}),
      Call("vote", "c", <<"b", "a", "c">>, {}), Call("vote", "d", <<"c", "a", "b">>, {})>>

\* a round of ballots of two preferences, a reset, a round of single votes
AfterReset ==
    <<Call("set_candidates", "", <<>>, {"a", "b", "c"}),
      Call("set_voters", "", <<>>, {"a", "b", "c", "d"}),
      Call("vote", "a", <<"a", "b">>, {}), Call("reset", "", <<>>, {}),
      Call("vote", "a", <<"a">>, {}), Call("vote", "b", <<"a">>, {}),
      Call("vote", "c", <<"b">>, {}), Call("vote", "d", <<"c">>, {})>>

\* a candidate that later preferences name leaves the candidates
CandidateLeaves ==
    <<Call("set_candidates", "", <<>>, {"a", "b", "c", "d"}),
      Call("set_voters", "", <<>>, {"e", "f", "g", "h"}),
      Call("vote", "e", <<"a">>, {}), Call("vote", "f", <<"a">>, {}),
      Call("vote", "g", <<"b", "c">>, {}), Call("vote", "h", <<"d", "b", "c">>, {}),
      Call("move_candidate_to_voter", "c", <<>>, {})>>

Scripts == {Orphaned, Random, AfterReset, CandidateLeaves}

\* the longest ballot of the ordered index
MaxPrefs(e) ==
    LET lens == {b.len : b \in e.ballots_ordered}
    IN  CHOOSE n \in lens : \A m \in lens : m <= n

\* step 1 of a round begins: nothing visited, no maximum, no minimum
StartScan(c, e) ==
    [c EXCEPT !.pc = "scan", !.todo = DOMAIN e.vote_count,
              !.max = 0, !.min = USIZE_MAX, !.min_id = ""]

\* the call begins: the election closes, the tally is kept, half and
\* max_prefs are read
BeginCount ==
    /\ count.pc = "idle"
    /\ election' = [election EXCEPT !.open = FALSE, !.init_vote_count = {election.vote_count}]
    /\ count' = IF election.ballots_ordered = {}
                THEN [count EXCEPT !.pc = "done",
                                   !.err = "max length of preferences unavailable"]
                ELSE StartScan([count EXCEPT
                                  !.half = Cardinality(DOMAIN election.voter_ballots) \div 2,
                                  !.max_prefs = MaxPrefs(election)], election)
    /\ UNCHANGED <<games, user_games, timers, now, users, sessions, notified>>

\* the loop over vote_count visits the entry of id, whichever the map yields
ScanNext(id) ==
    /\ count.pc = "scan"
    /\ id \in count.todo
    /\ LET n == Cardinality(election.vote_count[id])
           c == [count EXCEPT !.todo = @ \ {id}]
       IN  count' = IF n > count.max THEN [c EXCEPT !.max = n]
                    ELSE IF n = count.max THEN c
                    ELSE IF n > 0 /\ n < count.min THEN [c EXCEPT !.min = n, !.min_id = id]
                    ELSE c
    /\ UNCHANGED <<games, user_games, timers, now, users, sessions, notified, election>>

\* the traversal is over: the ballots of the lowest are redistributed and the
\* next round begins, or the loop ends
EndRound ==
    /\ count.pc = "scan"
    /\ count.todo = {}
    /\ IF count.max <= count.half /\ count.pref < count.max_prefs /\ count.min < count.max
       THEN /\ election' = Redistribute(election, count.min_id, count.pref + 1)
            /\ count' = StartScan([count EXCEPT !.pref = @ + 1,
                                                !.eliminated = Append(@, count.min_id)],
                                  election')
       ELSE /\ count' = [count EXCEPT !.pc = "done"]
            /\ UNCHANGED election
    /\ UNCHANGED <<games, user_games, timers, now, users, sessions, notified>>

\* a server without games, and an election after the calls of a script
InitCount ==
    /\ games = EmptyMap
    /\ user_games = EmptyMap
    /\ timers = <<>>
    /\ now = 0
    /\ users = EmptyMap
    /\ sessions = [map |-> EmptyMap, verification_keys |-> EmptyMap]
    /\ notified = EmptyBag
    /\ election \in {Run(Election_new, script, 1) : script \in Scripts}
    /\ count = NoCount

NextCount ==
    \/ BeginCount
    \/ \E id \in DOMAIN election.vote_count : ScanNext(id)
    \/ EndRound

SpecCount == InitCount /\ [][NextCount]_vars

\* the loop is not left waiting: the call runs to its end
FairSpecCount == SpecCount /\ WF_vars(NextCount)

----------------------------------------------------------------------------
(* Sessions: login, session verification and disconnection,
   relay_server.rs:135-173 and 213-284, common.rs:189-201 *)

\* the characters of CHARSET the generator is made to yield
KeyDie == {"A", "B"}

\* every string gen_rng_string can return: len characters, each drawn anew
gen_rng_string(len) == [1..len -> KeyDie]

\* the endpoints (Recipient<Message>) of the sockets
Addrs == {"E1", "E2"}

\* the users that log in, and the passwords they present
SessionUsers == {"a", "b"}

Passwords == {"p", "q"}

\* do_send of one message to the mailbox of an endpoint
do_send_log(addr, message) == SetToBag({<<addr, message>>})

\* verify_session that does not compare the key
verify_session_any_key(ss, msg) ==
    IF /\ msg.user_id # {}
       /\ \A user_id \in msg.user_id : user_id \in DOMAIN ss.verification_keys
    THEN LET user_id == CHOOSE u \in msg.user_id : TRUE
         IN  IF user_id \in DOMAIN ss.map /\ ss.map[user_id] = msg.addr
             THEN [sessions |-> ss, out |-> EmptyBag]
             ELSE [sessions |-> [ss EXCEPT !.map = MapPut(ss.map, user_id, msg.addr)],
                   out |-> do_send_log(msg.addr, "/alert new session")]
    ELSE [sessions |-> ss, out |-> do_send_log(msg.addr, "/logout VerifySession")]

\* verify_session that greets the new endpoint and keeps the old one bound
verify_session_no_rebind(ss, msg) ==
    IF /\ msg.user_id # {}
       /\ \A user_id \in msg.user_id :
             /\ user_id \in DOMAIN ss.verification_keys
             /\ ss.verification_keys[user_id] = msg.token
    THEN LET user_id == CHOOSE u \in msg.user_id : TRUE
         IN  IF user_id \in DOMAIN ss.map /\ ss.map[user_id] = msg.addr
             THEN [sessions |-> ss, out |-> EmptyBag]
             ELSE [sessions |-> ss, out |-> do_send_log(msg.addr, "/alert new session")]
    ELSE [sessions |-> ss, out |-> do_send_log(msg.addr, "/logout VerifySession")]

\* verify_session: the sessions afterwards and the messages sent
verify_session(ss, msg) ==
    IF /\ msg.user_id # {}
       /\ \A user_id \in msg.user_id :
             /\ user_id \in DOMAIN ss.verification_keys
             /\ ss.verification_keys[user_id] = msg.token
    THEN LET user_id == CHOOSE u \in msg.user_id : TRUE
         IN  IF user_id \in DOMAIN ss.map /\ ss.map[user_id] = msg.addr
             THEN [sessions |-> ss, out |-> EmptyBag]
             ELSE [sessions |-> [ss EXCEPT !.map = MapPut(ss.map, user_id, msg.addr)],
                   out |-> do_send_log(msg.addr, "/alert new session")]
    ELSE [sessions |-> ss, out |-> do_send_log(msg.addr, "/logout VerifySession")]

\* Connect that mints a key for every login, with an endpoint or without
ConnectOut_mints_always(us, ss, msg) ==
    LET user_id == msg.user.user_id
        known == user_id \in DOMAIN us
        success == known => us[user_id].password = msg.user.password
        us2 == IF known THEN us ELSE MapPut(us, user_id, msg.user)
    IN  IF ~success
        THEN {[ok |-> FALSE, alert |-> "Fail::Password", token |-> {},
               users |-> us2, sessions |-> ss, out |-> EmptyBag]}
        ELSE {[ok |-> TRUE, alert |-> IF known THEN "user exists" ELSE "user created",
               token |-> {k}, users |-> us2,
               sessions |-> [map |-> IF msg.addr = {} THEN ss.map
                                     ELSE MapPut(ss.map, user_id,
                                                 CHOOSE a \in msg.addr : TRUE),
                             verification_keys |->
                                 MapPut(ss.verification_keys, user_id, k)],
               out |-> IF /\ msg.addr # {}
                          /\ user_id \in DOMAIN ss.map
                          /\ {ss.map[user_id]} # msg.addr
                       THEN do_send_log(ss.map[user_id], "/logout Connect")
                       ELSE EmptyBag] :
                k \in gen_rng_string(4)}

\* Connect that logs the bound endpoint out without comparing it with the new one
ConnectOut_logs_out_same(us, ss, msg) ==
    LET user_id == msg.user.user_id
        known == user_id \in DOMAIN us
        success == known => us[user_id].password = msg.user.password
        us2 == IF known THEN us ELSE MapPut(us, user_id, msg.user)
    IN  IF ~success
        THEN {[ok |-> FALSE, alert |-> "Fail::Password", token |-> {},
               users |-> us2, sessions |-> ss, out |-> EmptyBag]}
        ELSE IF msg.addr = {}
        THEN {[ok |-> TRUE, alert |-> IF known THEN "user exists" ELSE "user created",
               token |-> {}, users |-> us2, sessions |-> ss, out |-> EmptyBag]}
        ELSE LET addr == CHOOSE a \in msg.addr : TRUE
             IN  {[ok |-> TRUE, alert |-> IF known THEN "user exists" ELSE "user created",
                   token |-> {k}, users |-> us2,
                   sessions |-> [map |-> MapPut(ss.map, user_id, addr),
                                 verification_keys |->
                                     MapPut(ss.verification_keys, user_id, k)],
                   out |-> IF user_id \in DOMAIN ss.map
                           THEN do_send_log(ss.map[user_id], "/logout Connect")
                           ELSE EmptyBag] :
                    k \in gen_rng_string(4)}

\* every outcome of the Connect handler: one for each key it can mint
ConnectOut(us, ss, msg) ==
    LET user_id == msg.user.user_id
        known == user_id \in DOMAIN us
        success == known => us[user_id].password = msg.user.password
        us2 == IF known THEN us ELSE MapPut(us, user_id, msg.user)
    IN  IF ~success
        THEN {[ok |-> FALSE, alert |-> "Fail::Password", token |-> {},
               users |-> us2, sessions |-> ss, out |-> EmptyBag]}
        ELSE IF msg.addr = {}
        THEN {[ok |-> TRUE, alert |-> IF known THEN "user exists" ELSE "user created",
               token |-> {}, users |-> us2, sessions |-> ss, out |-> EmptyBag]}
        ELSE LET addr == CHOOSE a \in msg.addr : TRUE
             IN  {[ok |-> TRUE, alert |-> IF known THEN "user exists" ELSE "user created",
                   token |-> {k}, users |-> us2,
                   sessions |-> [map |-> MapPut(ss.map, user_id, addr),
                                 verification_keys |->
                                     MapPut(ss.verification_keys, user_id, k)],
                   out |-> IF user_id \in DOMAIN ss.map /\ ss.map[user_id] # addr
                           THEN do_send_log(ss.map[user_id], "/logout Connect")
                           ELSE EmptyBag] :
                    k \in gen_rng_string(4)}

Connect(msg) ==
    \E r \in ConnectOut(users, sessions, msg) :
        /\ users' = r.users
        /\ sessions' = r.sessions
        /\ UNCHANGED <<games, user_games, timers, now, notified, election, count>>

VerifySession(msg) ==
    /\ sessions' = verify_session(sessions, msg).sessions
    /\ UNCHANGED <<games, user_games, timers, now, users, notified, election, count>>

\* Handler<Disconnect>: the endpoint of the user is removed, whichever it is
DisconnectOut(ss, msg) == [ss EXCEPT !.map = MapDel(ss.map, msg.user_id)]

Disconnect(msg) ==
    /\ sessions' = DisconnectOut(sessions, msg)
    /\ UNCHANGED <<games, user_games, timers, now, users, notified, election, count>>

\* the server as constructed: no user, no session, no game
InitSessions ==
    /\ games = EmptyMap
    /\ user_games = EmptyMap
    /\ timers = <<>>
    /\ now = 0
    /\ users = EmptyMap
    /\ sessions = NewSessions
    /\ notified = EmptyBag
    /\ election = Election_new
    /\ count = NoCount

\* the Connect messages: with the endpoint of a socket, or from the login
\* endpoint with none
ConnectMsgs ==
    {[user |-> [user_id |-> u, password |-> pw], addr |-> a] :
        u \in SessionUsers, pw \in Passwords, a \in {{}} \cup {{e} : e \in Addrs}}

\* the VerifySession messages: a user or none, an endpoint, a key
VerifyMsgs ==
    {[user_id |-> u, addr |-> a, token |-> k] :
        u \in {{}} \cup {{x} : x \in SessionUsers}, a \in Addrs, k \in gen_rng_string(4)}

NextSessions ==
    \/ \E msg \in ConnectMsgs : Connect(msg)
    \/ \E msg \in VerifyMsgs : VerifySession(msg)
    \/ \E u \in SessionUsers : Disconnect([user_id |-> u])

SpecSessions == InitSessions /\ [][NextSessions]_vars

----------------------------------------------------------------------------
(* Properties of the game state machine *)

\* the action points of user_id in game g
AP(g, user_id) == g.players[user_id].action_points

\* C1: in every reachable state the alive set and the dead set are disjoint
\* and their union is exactly the set of keys of the players map
C1_AliveDeadPartition ==
    /\ game.players_alive_dead.alive \cap game.players_alive_dead.dead = {}
    /\ game.players_alive_dead.alive \cup game.players_alive_dead.dead = DOMAIN game.players

\* a game in progress after a kill, a replenish and a heart spawn
C1_Witness ==
    /\ game.phase = "InProg"
    /\ game.players_alive_dead.dead # {}
    /\ game.players_alive_dead.alive # {}
    /\ Hearts(game) > 0
    /\ now > 0

\* C2: in every reachable state a player has lives == 0 if and only if its
\* user_id is in the dead set of the game
C2_LivesZeroIffDead ==
    \A u \in DOMAIN game.players :
        (game.players[u].lives = 0) <=> (u \in game.players_alive_dead.dead)

\* C3: every placed player is recorded on the player board at the key of its
\* pos, every entry of the player board names a player whose pos is that cell,
\* and no two placed players have the same pos
C3_PlayerBoardConsistent ==
    /\ \A u \in DOMAIN game.players :
          game.players[u].pos # Unplaced =>
              /\ key(game.players[u].pos) \in DOMAIN game.board.map
              /\ game.board.map[key(game.players[u].pos)] = u
    /\ \A k \in DOMAIN game.board.map :
          /\ game.board.map[k] \in DOMAIN game.players
          /\ key(game.players[game.board.map[k]].pos) = k
    /\ \A u, v \in DOMAIN game.players :
          (u # v /\ game.players[u].pos # Unplaced) =>
              game.players[u].pos # game.players[v].pos

\* a game seated by hand and started, in which a player has spent its point on
\* a move to the far cell
C3_Witness ==
    /\ game.phase = "InProg"
    /\ game.config.init_pos = "Manual"
    /\ Cardinality(DOMAIN game.board.map) = 4
    /\ \E u \in DOMAIN game.players :
          game.players[u].pos = FarCell /\ game.players[u].action_points = 0

\* C4: whenever player_action returns an error, the game is exactly what it
\* was before the call
C4_ErrorLeavesGameUnchanged ==
    \A u \in Targets, action \in PlayerActions :
        LET r == player_action(game, u, action)
        IN  ~r.ok => r.game = game

\* a game in progress with a dead player, in which the host's Attack fails on
\* the last check of its arm and the rival's Give for want of a point
C4_Witness ==
    /\ game.phase = "InProg"
    /\ game.players_alive_dead.dead # {}
    /\ player_action(game, Host, Attack("c", 2)).err = "attacking must take 1 life"
    /\ player_action(game, Rival, Give(Host)).err = "insufficient action points"

\* C5: the phase only moves forward: End is never left, and Init is never
\* entered again
C5_PhaseMovesForward ==
    [][/\ game.phase = "End" => game'.phase = "End"
       /\ game.phase # "Init" => game'.phase # "Init"]_vars

\* a game that has ended and whose turn timer has been delivered
C5_Witness ==
    /\ game.phase = "End"
    /\ timers = <<>>
    /\ now > 0

\* C6: after a successful player action on a game in progress the phase is
\* End if and only if exactly one player is in the alive set, and no game in
\* progress has fewer than two players in the alive set
C6_EndIffOneAlive ==
    /\ game.phase = "InProg" => alive_len(game.players_alive_dead) >= 2
    /\ \A u \in Targets, action \in PlayerActions :
          LET r == player_action(game, u, action)
          IN  (game.phase = "InProg" /\ r.ok) =>
                  (r.game.phase = "End" <=> alive_len(r.game.players_alive_dead) = 1)

C8_GiveConserves ==
    \A u \in Targets, t \in Targets :
        LET r == player_action(game, u, Give(t))
        IN  r.ok =>
              /\ DOMAIN r.game.players = DOMAIN game.players
              /\ AP(r.game, u) = AP(game, u) - 1
              /\ AP(r.game, t) = AP(game, t) + 1
              /\ AP(r.game, u) + AP(r.game, t) = AP(game, u) + AP(game, t)
              /\ \A w \in DOMAIN game.players \ {u, t} : AP(r.game, w) = AP(game, w)
              /\ \A w \in DOMAIN r.game.players : AP(r.game, w) >= 0

\* before the first turn ends and with nobody dead, a player holds two points
\* and another none: a Give has taken place; and one more is possible
C8_Witness ==
    /\ game.phase = "InProg"
    /\ now = 0
    /\ game.players_alive_dead.dead = {}
    /\ \E u, t \in DOMAIN game.players : AP(game, u) = 0 /\ AP(game, t) = 2
    /\ \E t \in Targets : player_action(game, Host, Give(t)).ok

\* C9 as stated: for a successful Attack that kills, the action points of the
\* attacker grow by the action points the victim had, and the victim has none
C9_KillGivesVictimPoints ==
    \A u \in Targets, t \in Targets :
        LET r == player_action(game, u, Attack(t, ATTACK_LIVES_EFFECT))
        IN  (r.ok /\ r.game.players[t].lives = 0) =>
              /\ AP(r.game, u) - AP(game, u) = AP(game, t)
              /\ AP(r.game, t) = 0

\* C9: for a successful Attack that kills, the action points of the attacker
\* grow by the action points the victim had less the cost of the attack, and
\* the victim has none
C9_KillGivesVictimPointsLessCost ==
    \A u \in Targets, t \in Targets :
        LET r == player_action(game, u, Attack(t, ATTACK_LIVES_EFFECT))
        IN  (r.ok /\ r.game.players[t].lives = 0) =>
              /\ AP(r.game, u) - AP(game, u) = AP(game, t) - ATTACK_COST
              /\ AP(r.game, t) = 0

\* a player on its last life that holds points is in reach of an attacker
C9_Witness ==
    \E u \in {Host, Rival}, t \in Targets :
        LET r == player_action(game, u, Attack(t, ATTACK_LIVES_EFFECT))
        IN  /\ r.ok
            /\ r.game.players[t].lives = 0
            /\ AP(game, t) > 0
            /\ t \in r.game.players_alive_dead.dead

\* C10: a replenish on a game in progress adds exactly one action point to
\* every player with a life that is not cursed, leaves every player without a
\* life and every cursed player as it was, and emits exactly one update
\* (user, game, new_ap) for every player
C10_ReplenishAddsOne ==
    LET tally == game.curse_election.vote_count
        voted == {k \in DOMAIN tally : tally[k] # {}}
        cursed == {k \in voted : \A j \in voted : Cardinality(tally[j]) <= Cardinality(tally[k])}
    IN  game.phase = "InProg" =>
          \A r \in replenish(game, now) :
              /\ r.ok
              /\ DOMAIN r.game.players = DOMAIN game.players
              /\ \A u \in DOMAIN game.players :
                    /\ AP(r.game, u) =
                          IF game.players[u].lives >= 1 /\ u \notin cursed
                          THEN AP(game, u) + 1 ELSE AP(game, u)
                    /\ Cardinality({i \in DOMAIN r.apu : r.apu[i][1] = u}) = 1
                    /\ \E i \in DOMAIN r.apu : r.apu[i] = <<u, GameId, AP(r.game, u)>>
              /\ Len(r.apu) = Cardinality(DOMAIN game.players)

\* a turn has been replenished, and the game has a dead player and a player
\* with a life that takes the curse at the next replenish
C10_Witness ==
    /\ game.phase = "InProg"
    /\ now > 0
    /\ game.players_alive_dead.dead # {}
    /\ \E k \in DOMAIN game.curse_election.vote_count :
          game.curse_election.vote_count[k] # {} /\ game.players[k].lives >= 1

----------------------------------------------------------------------------
(* Properties of the curse election and the turn timer *)

\* the dead players whose latest vote since the last replenish is for k
CastFor(g, k) ==
    {v \in DOMAIN g.curse_election.voter_vote :
        g.players[v].lives = 0 /\ g.curse_election.voter_vote[v] = k}

\* those of them the tally of k still holds: k has not died since they voted
StandingFor(g, k) ==
    {v \in CastFor(g, k) :
        k \in DOMAIN g.curse_election.vote_count /\ v \in g.curse_election.vote_count[k]}

\* the players with a life
Living(g) == {u \in DOMAIN g.players : g.players[u].lives >= 1}

\* the players with a life that the outcome r of a replenish of g gave nothing
Skipped(g, r) == {u \in Living(g) : AP(r.game, u) = AP(g, u)}

\* C11 as stated: the players skipped by a replenish are exactly the living
\* players tied for the highest non-zero number of curse votes cast by dead
\* players since the previous replenish, and every replenish empties the tally
C11_SkippedAreMostVotedFor ==
    game.phase = "InProg" =>
        \A r \in replenish(game, now) :
            /\ Skipped(game, r) =
                  {k \in Living(game) :
                      /\ CastFor(game, k) # {}
                      /\ \A j \in Living(game) :
                            Cardinality(CastFor(game, j)) <= Cardinality(CastFor(game, k))}
            /\ r.game.curse_election.vote_count = EmptyMap
            /\ r.game.curse_election.voter_vote = EmptyMap

\* C11: the players skipped by a replenish are exactly the living players tied
\* for the highest non-zero number of standing curse votes: the latest votes
\* that players still dead cast since the previous replenish for a player that
\* has not died since; the tally counts nothing else, and every replenish
\* empties it
C11_SkippedAreMostStandingVotes ==
    /\ \A k \in DOMAIN game.curse_election.vote_count :
          /\ game.curse_election.vote_count[k] \subseteq CastFor(game, k)
          /\ k \in Living(game)
    /\ game.phase = "InProg" =>
          \A r \in replenish(game, now) :
              /\ Skipped(game, r) =
                    {k \in Living(game) :
                        /\ StandingFor(game, k) # {}
                        /\ \A j \in Living(game) :
                              Cardinality(StandingFor(game, j))
                                  <= Cardinality(StandingFor(game, k))}
              /\ r.game.curse_election.vote_count = EmptyMap
              /\ r.game.curse_election.voter_vote = EmptyMap

\* a dead player voted for a player that died and was revived in the same
\* turn: the vote no longer stands, and the replenish skips nobody
C11_Witness ==
    /\ game.phase = "InProg"
    /\ \E k \in Living(game) : CastFor(game, k) # {} /\ StandingFor(game, k) = {}
    /\ \A r \in replenish(game, now) : Skipped(game, r) = {}

\* the scheduled Replenish messages of game_id that are pending
PendingFor(game_id) == {i \in 1..Len(timers) : timers[i].game_id = game_id}

\* C12: a StartGame schedules one Replenish if it succeeds and none if it
\* fails, each applied Replenish schedules one successor, and so every game in
\* progress has exactly one pending Replenish and every game in Init has none,
\* whoever asks to start which game how often
C12_OneTimerPerRunningGame ==
    /\ \A game_id \in DOMAIN games :
          /\ games[game_id].phase = "InProg" => Cardinality(PendingFor(game_id)) = 1
          /\ games[game_id].phase = "Init" => PendingFor(game_id) = {}
          /\ \A r \in ReplenishOut(games, game_id, now) :
                /\ Len(r.later) = IF r.ok THEN 1 ELSE 0
                /\ \A i \in 1..Len(r.later) : r.later[i].game_id = game_id
    /\ \A game_id \in {GameId, OtherGame}, u \in Targets :
          \A r \in StartGameOut(games, game_id, u, now) :
              /\ r.ok <=> /\ game_id \in DOMAIN games
                          /\ games[game_id].phase = "Init"
                          /\ r.games[game_id].phase = "InProg"
              /\ Len(r.later) = IF r.ok THEN 1 ELSE 0
              /\ \A i \in 1..Len(r.later) : r.later[i].game_id = game_id

\* a game in progress after a Replenish was applied and scheduled its successor
C12_Witness ==
    /\ game.phase = "InProg"
    /\ now >= 1
    /\ Cardinality(PendingFor(GameId)) = 1
    /\ \A i \in PendingFor(GameId) : timers[i].due > now

\* C13: a Replenish delivered for a game in End fails and is discarded: the
\* game keeps its action points, its election and its turn_end_unix, no
\* action point update is sent and no further Replenish is scheduled
C13_ReplenishAtEndDiscarded ==
    \A game_id \in DOMAIN games :
        games[game_id].phase = "End" =>
            \A t \in now..MaxNow :
                \A r \in ReplenishOut(games, game_id, t) :
                    /\ ~r.ok
                    /\ r.games = games
                    /\ r.out = EmptyBag
                    /\ r.later = <<>>

\* the game ended with its Replenish pending, and the Replenish was delivered
\* when it was due: the turn's end is as the start of the game set it
C13_Witness ==
    /\ game.phase = "End"
    /\ now = TURN_TIME_SECS
    /\ game.turn_end_unix <= now
    /\ timers = <<>>

----------------------------------------------------------------------------
(* Properties of the sessions *)

\* the Connect messages that come from a socket
SocketConnects == {msg \in ConnectMsgs : msg.addr # {}}

\* the VerifySession message of user_id at endpoint addr with key token
Verify(user_id, addr, token) == [user_id |-> {user_id}, addr |-> addr, token |-> token]

\* C14 as stated: after Connect(u, pw, E) succeeds with token t, a verify of
\* (u, E, t) is silent and changes nothing, and a verify presenting t from any
\* other endpoint, claiming u or another user, is answered with a logout to
\* that endpoint and leaves u bound to E
C14_TokenOnlyFromItsEndpoint ==
    \A msg \in SocketConnects, E \in Addrs :
        \A r \in ConnectOut(users, sessions, msg) :
            (r.ok /\ msg.addr = {E}) =>
                \A t \in r.token :
                    LET u == msg.user.user_id
                    IN  /\ verify_session(r.sessions, Verify(u, E, t))
                              = [sessions |-> r.sessions, out |-> EmptyBag]
                        /\ \A E2 \in Addrs \ {E}, c \in SessionUsers :
                              LET v == verify_session(r.sessions, Verify(c, E2, t))
                              IN  /\ v.out = do_send_log(E2, "/logout VerifySession")
                                  /\ v.sessions.map[u] = E

\* C14: after Connect(u, pw, E) succeeds with token t, a verify of (u, E, t)
\* is silent and changes nothing, and a verify presenting t from any other
\* endpoint, claiming another user whose own current token is not t, is
\* answered with a logout to that endpoint and changes nothing: u stays bound
\* to E
C14_TokenOnlyForItsUser ==
    \A msg \in SocketConnects, E \in Addrs :
        \A r \in ConnectOut(users, sessions, msg) :
            (r.ok /\ msg.addr = {E}) =>
                \A t \in r.token :
                    LET u == msg.user.user_id
                        keys == r.sessions.verification_keys
                    IN  /\ verify_session(r.sessions, Verify(u, E, t))
                              = [sessions |-> r.sessions, out |-> EmptyBag]
                        /\ \A E2 \in Addrs \ {E}, c \in SessionUsers \ {u} :
                              (c \in DOMAIN keys => keys[c] # t) =>
                                  LET v == verify_session(r.sessions, Verify(c, E2, t))
                                  IN  /\ v.out = do_send_log(E2, "/logout VerifySession")
                                      /\ v.sessions = r.sessions
                                      /\ v.sessions.map[u] = E

\* two users are logged in at different endpoints with different tokens
C14_Witness ==
    \E u \in DOMAIN sessions.map, c \in DOMAIN sessions.map :
        /\ u # c
        /\ sessions.map[u] # sessions.map[c]
        /\ sessions.verification_keys[u] # sessions.verification_keys[c]

\* C15: a verify of (u, E2, t) where t is the current token of u and E2 is
\* not the endpoint u is bound to, or u is bound to none, binds u to E2 and
\* sends one message only, the new session alert to E2: no logout goes to E2
\* or to the endpoint bound before
C15_MatchingTokenRebinds ==
    \A u \in DOMAIN sessions.verification_keys, E2 \in Addrs :
        (u \in DOMAIN sessions.map => sessions.map[u] # E2) =>
            LET v == verify_session(sessions, Verify(u, E2, sessions.verification_keys[u]))
            IN  /\ v.sessions = [sessions EXCEPT !.map = MapPut(sessions.map, u, E2)]
                /\ v.sessions.map[u] = E2
                /\ v.out = do_send_log(E2, "/alert new session")

\* one user holds a token and is bound to an endpoint, another holds a token
\* and was disconnected
C15_Witness ==
    \E u \in DOMAIN sessions.verification_keys, c \in DOMAIN sessions.verification_keys :
        /\ u \in DOMAIN sessions.map
        /\ c \notin DOMAIN sessions.map

\* C16: a successful Connect of a user that is bound to an endpoint E1, with
\* another endpoint E2, sends E1 exactly one logout and binds the user to E2;
\* with E1 itself it sends no logout and the user stays bound to E1
C16_ConnectLogsOutOldEndpoint ==
    \A msg \in SocketConnects, E2 \in Addrs :
        LET u == msg.user.user_id
        IN  (msg.addr = {E2} /\ u \in DOMAIN sessions.map) =>
                \A r \in ConnectOut(users, sessions, msg) :
                    r.ok =>
                        /\ r.sessions.map[u] = E2
                        /\ r.out = IF sessions.map[u] # E2
                                   THEN do_send_log(sessions.map[u], "/logout Connect")
                                   ELSE EmptyBag
                        /\ CopiesIn(<<sessions.map[u], "/logout Connect">>, r.out)
                              = IF sessions.map[u] # E2 THEN 1 ELSE 0

\* both users logged in with a socket and are bound to the same endpoint
C16_Witness ==
    /\ DOMAIN sessions.map = SessionUsers
    /\ DOMAIN users = SessionUsers
    /\ \A u \in SessionUsers : sessions.map[u] = "E1"

\* C17: after a second successful Connect of a user, a verify with the token
\* the first Connect returned is answered with a logout and changes no
\* binding, whichever tokens the two Connects returned
C17_OnlyLatestTokenVerifies ==
    \A msg \in SocketConnects, E2 \in Addrs :
        LET u == msg.user.user_id
        IN  u \in DOMAIN sessions.verification_keys =>
                \A r \in ConnectOut(users, sessions, msg) :
                    r.ok =>
                        LET v == verify_session(r.sessions,
                                     Verify(u, E2, sessions.verification_keys[u]))
                        IN  /\ v.out = do_send_log(E2, "/logout VerifySession")
                            /\ v.sessions = r.sessions

----------------------------------------------------------------------------
(* Properties of hosting and joining *)

\* C18: HostGame(h, g) for a game g that exists with host h creates nothing
\* and leaves the game, the games and user_games as they are, whatever the
\* phase of g; h is sent the snapshot of the game and the alert that it
\* rejoined, not the alert of a new game
C18_HostGameIdempotent ==
    \A game_id \in DOMAIN games, h \in Targets :
        games[game_id].host_user_id = {h} =>
            \A r \in HostGameOut(games, user_games, h, game_id) :
                /\ r.ok
                /\ r.games = games
                /\ r.user_games = user_games
                /\ r.later = <<>>
                /\ CopiesIn(<<h, "/host_game_success">>, r.out) = 1
                /\ CopiesIn(<<h, "/alert rejoined game">>, r.out) = 1
                /\ CopiesIn(<<h, "/alert new game created">>, r.out) = 0
                /\ \A m \in BagToSet(r.out) : m[1] = h

\* the host can return to its game that ended after it hosted a second game,
\* which user_games binds it to
C18_Witness ==
    /\ game.phase = "End"
    /\ OtherGame \in DOMAIN games
    /\ Host \in DOMAIN user_games
    /\ user_games[Host] = OtherGame
    /\ game.host_user_id = {Host}

\* C19: HostGame(h, g) fails, creating no game and leaving games and
\* user_games as they are, whenever g exists with another host, and whenever
\* user_games binds h to another game, hosted by h or merely joined
C19_HostGameRefused ==
    \A game_id \in {GameId, OtherGame}, h \in Users :
        (\/ game_id \in DOMAIN games /\ games[game_id].host_user_id # {h}
         \/ /\ game_id \notin DOMAIN games
            /\ h \in DOMAIN user_games
            /\ user_games[h] # game_id) =>
            \A r \in HostGameOut(games, user_games, h, game_id) :
                /\ ~r.ok
                /\ r.games = games
                /\ r.user_games = user_games

\* C20 as stated: JoinGame(u, g) of a user that is a player of g reports
\* Rejoined: nothing in g changes, no player_joined goes to the others, and
\* the snapshot and the action points of u go to u only
C20_RejoinChangesNothing ==
    \A game_id \in DOMAIN games : \A u \in DOMAIN games[game_id].players :
        \A r \in JoinGameOut(games, user_games, u, game_id) :
            /\ r.ok
            /\ r.res = "Rejoined"
            /\ r.games = games
            /\ r.out = send_user(u, "/join_game_success")
                       (+) send_user(u, "/action_point_update")

\* C20: JoinGame(u, g) of a user that is a player of g and that user_games
\* does not bind to another game reports Rejoined: nothing in g changes, no
\* player_joined goes to the others, and the snapshot and the action points
\* of u go to u only
C20_RejoinOfUnboundChangesNothing ==
    \A game_id \in DOMAIN games : \A u \in DOMAIN games[game_id].players :
        (u \in DOMAIN user_games => user_games[u] = game_id) =>
            \A r \in JoinGameOut(games, user_games, u, game_id) :
                /\ r.ok
                /\ r.res = "Rejoined"
                /\ r.games = games
                /\ r.out = send_user(u, "/join_game_success")
                           (+) send_user(u, "/action_point_update")
                /\ \A m \in BagToSet(r.out) : m[1] = u /\ m[2] # "/player_joined"

\* the game ended and released its players, and the host went on to host a
\* second game: the other players can rejoin the ended game
C20_Witness ==
    /\ game.phase = "End"
    /\ OtherGame \in DOMAIN games
    /\ DOMAIN user_games = {Host}
    /\ Cardinality(DOMAIN game.players) = 4

----------------------------------------------------------------------------
(* Properties of the requests of players and of the configuration *)

\* the requests a user sends in the play of the game
RequestsOf(u) == IF u = Rival THEN RivalActions ELSE PlayerActions

\* the step of a player action that ends the game: every player of the game
\* is released from user_games, is sent the action's event and has one
\* UserStatus queued, all in that step
EndStepReleasesPlayers ==
    game.phase = "InProg" =>
        \A u \in Actors \cup {Rival} : \A action \in RequestsOf(u) :
            LET r == PlayerActionOut(games, user_games, u, GameId, action)
            IN  r.games[GameId].phase = "End" =>
                    \A p \in DOMAIN game.players :
                        /\ p \notin DOMAIN r.user_games
                        /\ CopiesIn(p, r.notify) = 1
                        /\ CopiesIn(<<p, "/player_action">>, r.out) = 1

\* C21 as stated: the player action that ends a game releases all its players
\* from user_games in the same step, and each of them is then sent, after the
\* last event of the game, a user_status that names no game
C21_EndReleasesAndReportsNoGame ==
    /\ EndStepReleasesPlayers
    /\ \A u \in BagToSet(notified) :
          /\ game.phase = "End" /\ u \in DOMAIN game.players
          /\ UserStatusOut(games, user_games, u).game_id = {}

\* C21: the player action that ends a game releases all its players from
\* user_games in the same step, and each of them is then sent, after the last
\* event of the game, a user_status; it names no game unless a HostGame or
\* JoinGame has bound the player to another game before the status is
\* handled, and then it names that game
C21_EndReleasesAndReportsBinding ==
    /\ EndStepReleasesPlayers
    /\ \A u \in BagToSet(notified) :
          /\ game.phase = "End" /\ u \in DOMAIN game.players
          /\ u \in DOMAIN user_games => user_games[u] # GameId
          /\ UserStatusOut(games, user_games, u).game_id
                = IF u \in DOMAIN user_games THEN {user_games[u]} ELSE {}
          /\ UserStatusOut(games, user_games, u).out = send_user(u, "/user_status")

\* the game ended, the status of the host is still queued and the host has
\* hosted a second game; the status of another player was handled
C21_Witness ==
    /\ game.phase = "End"
    /\ BagIn(Host, notified)
    /\ ~BagIn("b", notified)
    /\ Host \in DOMAIN user_games
    /\ user_games[Host] = OtherGame

\* C22: a PlayerActionRequest of a user that user_games does not bind, or
\* binds to another game than the one the request names, changes no game and
\* no binding, and all it sends is one error frame to the requesting user
C22_UnboundRequestRefused ==
    \A u \in Targets, game_id \in {GameId, OtherGame} :
        (u \in DOMAIN user_games => user_games[u] # game_id) =>
            \A action \in SetupActions \cup RivalActions :
                LET r == PlayerActionOut(games, user_games, u, game_id, action)
                IN  /\ ~r.ok
                    /\ r.games = games
                    /\ r.user_games = user_games
                    /\ r.notify = EmptyBag
                    /\ r.out = send_user(u, "/error player_action")

\* a player seated in the first game hosted a second one and is bound to it:
\* its requests for the first game are refused
C22_Witness ==
    /\ GameId \in DOMAIN games
    /\ "b" \in DOMAIN games[GameId].players
    /\ games[GameId].phase = "Init"
    /\ games[GameId].config.init_pos = "Manual"
    /\ "b" \in DOMAIN user_games
    /\ user_games["b"] = OtherGame

\* the ConfigGame operations the requests carry
AllConfOps ==
    ConfOps \cup SetupConfOps
    \cup {[op |-> "TurnTimeSecs", v |-> 10], [op |-> "InitActPts", v |-> 2],
          [op |-> "InitRange", v |-> 1]}

\* a ConfigGame that is not sent by the host of a game in Init leaves every
\* game unchanged and sends one error to its sender; a StartGame that is not
\* sent by the host leaves every game unchanged
OnlyHostInInitConfigures ==
    /\ \A u \in Targets, op \in AllConfOps :
          (game.host_user_id # {u} \/ game.phase # "Init") =>
              \A r \in ConfigGameOut(games, GameId, u, op) :
                  /\ ~r.ok
                  /\ r.games = games
                  /\ r.out = send_user(u, "/error conf_game")
    /\ \A u \in Targets :
          game.host_user_id # {u} =>
              \A r \in StartGameOut(games, GameId, u, now) :
                  ~r.ok /\ r.games = games /\ r.later = <<>>
    /\ game.phase = "Init" =>
          \A p \in DOMAIN game.players :
              /\ game.players[p].lives = game.config.init_lives
              /\ game.players[p].action_points = game.config.init_action_points
              /\ game.players[p].range = game.config.init_range

\* a step that changes the configuration or the board size of the game is a
\* successful configure of the game in Init
ConfigChangesByConfigure ==
    (game'.config # game.config \/ game'.board.size # game.board.size) =>
        /\ game.phase = "Init"
        /\ game'.phase = "Init"
        /\ \E op \in AllConfOps : \E r \in configure(game, op) : r.ok /\ game' = r.game

\* C23: the configuration, the board size and the loadout of the players of
\* a game change only through a ConfigGame of the game's host while the game
\* is in Init; a ConfigGame of another user, or in InProg or End, leaves the
\* game unchanged and only its sender receives an error; a StartGame of
\* another user than the host leaves the game in Init
C23_OnlyHostConfiguresInInit ==
    []OnlyHostInInitConfigures /\ [][ConfigChangesByConfigure]_vars

\* the host changed the initial lives in Init, and the game is in progress
C23_Witness ==
    /\ game.phase = "InProg"
    /\ game.config.init_lives # INIT_LIVES
    /\ game.host_user_id = {Host}

\* the turn times the requests ask for: the ends of the range and beyond
TurnTimes == {0, 9, 10, 11, 86400, 86401}

\* C24: the turn_time_secs of every game is between 10 and 86400 in every
\* state, from the creation of the game on; configure(TurnTimeSecs v)
\* succeeds exactly for v in that range and otherwise leaves the value as it is
C24_TurnTimeInRange ==
    \A game_id \in DOMAIN games :
        /\ games[game_id].config.turn_time_secs \in 10..86400
        /\ games[game_id].phase = "Init" =>
              \A v \in TurnTimes :
                  \A r \in configure(games[game_id], [op |-> "TurnTimeSecs", v |-> v]) :
                      /\ r.ok <=> v \in 10..86400
                      /\ r.game.config.turn_time_secs
                            = IF r.ok THEN v ELSE games[game_id].config.turn_time_secs

\* the players fit the limit and the limit fits the board
CapacityOk(g) ==
    /\ Cardinality(DOMAIN g.players) <= g.config.max_players
    /\ g.config.max_players <= g.board.size * g.board.size

\* the MaxPlayers and BoardSize operations the requests carry
CapacityOps ==
    {[op |-> "MaxPlayers", v |-> v] : v \in {0, 1, 3, 4, 5, 13, 101}}
    \cup {[op |-> "BoardSize", v |-> v] : v \in {0, 1, 2, 3, 4}}

C29_ConnectWithoutSessionEffect ==
    \A msg \in ConnectMsgs :
        \A r \in ConnectOut(users, sessions, msg) :
            /\ r.ok <=> (msg.user.user_id \in DOMAIN users =>
                            users[msg.user.user_id].password = msg.user.password)
            /\ (~r.ok \/ msg.addr = {}) =>
                  /\ r.sessions = sessions
                  /\ r.token = {}
                  /\ r.out = EmptyBag
            /\ ~r.ok => r.users = users

\* one user is logged in at an endpoint with a stored password, the other
\* logged in without an endpoint and holds no token
C29_Witness ==
    /\ "a" \in DOMAIN sessions.map
    /\ "a" \in DOMAIN users
    /\ users["a"].password = "p"
    /\ "b" \in DOMAIN users
    /\ "b" \notin DOMAIN sessions.verification_keys

----------------------------------------------------------------------------
(* Properties of the election *)

\* the errors of the validation of a ballot in vote
ValidationErrors == {"bad ballot preferences", "not a candidate", "ballot contains duplicates"}

\* the ballots of a voter in the allocation sets, each with its candidate
AllocatedOf(e, voter) ==
    {<<c, b>> \in UNION {{c} \X e.vote_count[c] : c \in DOMAIN e.vote_count} :
        b.ballot.voter = voter}

\* C30: a vote that the validation of its ballot rejects (no preference, more
\* preferences than candidates, an id that is no candidate, a repeated id)
\* leaves the election as it was, the voter's earlier ballot still recorded
\* and counted.
C30_RejectedVoteChangesNothing ==
    \A voter \in ElIds, prefs \in PrefLists :
        LET r == Election_vote(election, voter, prefs)
        IN  (~r.ok /\ r.err \in ValidationErrors) => r.el = election

\* the entries of a ranked list
Entries(prefs) == {prefs[i] : i \in 1..Len(prefs)}

\* what a successful vote records for the voter
Recorded(voter, prefs) == [ballot |-> PrefBallot(prefs, voter), allocated |-> prefs[1]]

\* no voter has ballots in two allocation sets or two ballots in one; every
\* allocated ballot sits in the set of the candidate it names, which is an
\* entry of its list, and is the ballot recorded for its voter
OneBallotPerVoter ==
    /\ \A voter \in ElIds : Cardinality(AllocatedOf(election, voter)) <= 1
    /\ \A c \in DOMAIN election.vote_count : \A b \in election.vote_count[c] :
          /\ b.allocated = c
          /\ b.allocated \in Entries(b.ballot.prefs)
          /\ b.ballot.voter \in DOMAIN election.voter_ballots
          /\ election.voter_ballots[b.ballot.voter] = b
    /\ \A voter \in DOMAIN election.voter_ballots :
          /\ election.voter_ballots[voter].ballot.voter = voter
          /\ election.voter_ballots[voter].allocated
                \in Entries(election.voter_ballots[voter].ballot.prefs)

\* a successful vote leaves the voter with the new ballot and nothing else
VoteReplaces ==
    \A voter \in ElIds, prefs \in PrefLists :
        LET r == Election_vote(election, voter, prefs)
        IN  r.ok => /\ r.el.voter_ballots[voter] = Recorded(voter, prefs)
                    /\ AllocatedOf(r.el, voter) = {<<prefs[1], Recorded(voter, prefs)>>}

\* C26: after any sequence of vote, remove_ballot, roster moves,
\* apply_preferential_voting and reset, each voter has at most one ballot: it
\* is in at most one candidate's allocation set, the candidate it is
\* allocated to is an entry of its ranked list, and a second vote of the
\* voter replaces the first.
C26_OneBallotPerVoter == OneBallotPerVoter /\ VoteReplaces

\* a ballot that the count has moved to its second preference
C26_Witness ==
    /\ ~election.open
    /\ \E voter \in DOMAIN election.voter_ballots :
          /\ Len(election.voter_ballots[voter].ballot.prefs) = 2
          /\ election.voter_ballots[voter].allocated = election.voter_ballots[voter].ballot.prefs[2]
          /\ AllocatedOf(election, voter) # {}

\* the number of ballots allocated to a candidate, and the highest of them
CountOf(e, c) == IF c \in DOMAIN e.vote_count THEN Cardinality(e.vote_count[c]) ELSE 0

MaxCount(e) ==
    LET counts == {CountOf(e, c) : c \in DOMAIN e.vote_count} \cup {0}
    IN  CHOOSE n \in counts : \A m \in counts : m <= n

\* C27: get_winners returns exactly the candidates whose allocation count
\* equals the highest count, provided that it is at least 1, and nobody when
\* every count is zero; it does not modify the election.
C27_WinnersHaveTheHighestCount ==
    \A r \in get_winners(election) :
        /\ r.el = election
        /\ r.winners = IF MaxCount(election) >= 1
                       THEN {c \in DOMAIN election.vote_count :
                                CountOf(election, c) = MaxCount(election)}
                       ELSE {}

\* two candidates tied with two ballots each, a third in the count with none
C27_Witness ==
    /\ MaxCount(election) = 2
    /\ \E c1, c2, c3 \in DOMAIN election.vote_count :
          /\ c1 # c2
          /\ CountOf(election, c1) = 2
          /\ CountOf(election, c2) = 2
          /\ CountOf(election, c3) = 0
    /\ \E r \in get_winners(election) : Cardinality(r.winners) = 2

\* a call that fails with the error of a closed election and changes nothing
RefusedAsClosed(e, r) == ~r.ok /\ r.err = "closed to new votes" /\ r.el = e

\* on a closed election every vote, remove_ballot and move_candidate_to_voter
\* is refused as closed
ClosedRefuses ==
    ~election.open =>
        /\ \A voter \in ElIds, prefs \in PrefLists :
              RefusedAsClosed(election, Election_vote(election, voter, prefs))
        /\ \A voter \in ElIds : RefusedAsClosed(election, remove_ballot(election, voter))
        /\ \A id \in ElIds : RefusedAsClosed(election, move_candidate_to_voter(election, id))

\* reset opens the election, leaves no ballot in it, keeps the rosters, and
\* a voter can vote for a candidate again
ResetClears ==
    LET e == Election_reset(election)
    IN  /\ e.open
        /\ e.vote_count = EmptyMap
        /\ e.voter_ballots = EmptyMap
        /\ e.ballots_ordered = {}
        /\ e.candidates = election.candidates
        /\ e.voters = election.voters
        /\ \A voter \in e.voters, c \in e.candidates : Election_vote(e, voter, <<c>>).ok

\* C28: after apply_preferential_voting every vote, remove_ballot and
\* move_candidate_to_voter fails with a closed error and leaves ballots and
\* rosters unchanged, until reset; after reset the election is open, has no
\* ballots, keeps its rosters, and vote succeeds again.
C28_ClosedUntilReset == ClosedRefuses /\ ResetClears

\* what of C28 the code keeps: the per-voter map and the allocation sets are
\* empty after reset, and a closed election refuses every vote, remove_ballot
\* and every move of a candidate
ClosedUntilResetButIndex ==
    /\ ~election.open =>
          /\ \A voter \in ElIds, prefs \in PrefLists :
                RefusedAsClosed(election, Election_vote(election, voter, prefs))
          /\ \A voter \in ElIds : RefusedAsClosed(election, remove_ballot(election, voter))
          /\ \A id \in election.candidates :
                RefusedAsClosed(election, move_candidate_to_voter(election, id))
          /\ \A id \in ElIds \ election.candidates :
                LET r == move_candidate_to_voter(election, id)
                IN  ~r.ok /\ r.el = election
    /\ LET e == Election_reset(election)
       IN  /\ e.open
           /\ e.vote_count = EmptyMap
           /\ e.voter_ballots = EmptyMap
           /\ e.candidates = election.candidates
           /\ e.voters = election.voters
           /\ \A voter \in e.voters, c \in e.candidates : Election_vote(e, voter, <<c>>).ok

\* the longest of a set of lengths, 0 for none
Longest(lens) == CHOOSE n \in lens \cup {0} : \A m \in lens \cup {0} : m <= n

\* C31: in every reachable election the ordered index holds exactly the
\* ballots of the per-voter map, so the longest length that
\* apply_preferential_voting reads from it is that of the longest ballot cast.
C31_IndexHoldsTheBallotsCast ==
    /\ election.ballots_ordered =
          {Rank(election.voter_ballots[voter].ballot) : voter \in DOMAIN election.voter_ballots}
    /\ Longest({b.len : b \in election.ballots_ordered}) =
          Longest({Len(election.voter_ballots[voter].ballot.prefs) :
                      voter \in DOMAIN election.voter_ballots})

----------------------------------------------------------------------------
(* Properties of the count *)

\* the strictly positive counts below the highest count
LowerCounts(e) ==
    {CountOf(e, c) : c \in DOMAIN e.vote_count} \ {0, MaxCount(e)}

\* the traversal of a round is over
Traversed == count.pc = "scan" /\ count.todo = {}

\* the round that is decided next eliminates a candidate
Eliminates ==
    count.max <= count.half /\ count.pref < count.max_prefs /\ count.min < count.max

\* C32: in every round, for every traversal order of the tally, the maximum
\* found is the highest allocation count and, if a candidate has a strictly
\* positive count below it, the candidate chosen for elimination has the
\* lowest strictly positive count; the count stops without eliminating only
\* when the maximum exceeds half the ballots, no positive count below the
\* maximum exists, or the preference index has reached the longest ballot.
C32_RoundFindsHighestAndLowest ==
    Traversed =>
        /\ count.max = MaxCount(election)
        /\ LowerCounts(election) # {} =>
              /\ count.min_id \in DOMAIN election.vote_count
              /\ CountOf(election, count.min_id) = count.min
              /\ \A n \in LowerCounts(election) : count.min <= n
        /\ ~Eliminates =>
              \/ MaxCount(election) > count.half
              \/ LowerCounts(election) = {}
              \/ count.pref >= count.max_prefs

\* what of C32 the code keeps: the maximum is the highest count, and a
\* candidate chosen for elimination has a positive count below it
RoundFindsHighest ==
    Traversed =>
        /\ count.max = MaxCount(election)
        /\ count.min < count.max => CountOf(election, count.min_id) \in LowerCounts(election)

\* the election of test_orphaned_ballots_preferential
IsOrphaned == election.candidates = {"a", "b", "c", "d", "_"}

\* C33: with no tie for the lowest positive count in any round the outcome
\* does not depend on the traversal order: for the eleven ballots of the
\* example the eliminations are d, c, d and get_winners afterwards is {a}.
C33_OrphanedEliminatesDCD ==
    (IsOrphaned /\ count.pc = "done") =>
        /\ count.eliminated = <<"d", "c", "d">>
        /\ \A r \in get_winners(election) : r.winners = {"a"}

\* the rounds eliminate one candidate each, as many as the preference index
\* counts, and no more than the longest ballot of the index
RoundsWithinIndex ==
    /\ Len(count.eliminated) = count.pref
    /\ count.pc # "idle" /\ count.err = "" => count.pref <= count.max_prefs
    /\ count.pref < 10000

\* the rounds are no more than the longest ballot that is cast
RoundsWithinLongestCast ==
    Len(count.eliminated) <=
        Longest({Len(election.voter_ballots[voter].ballot.prefs) :
                    voter \in DOMAIN election.voter_ballots})

\* the call ends
CountEnds == <>(count.pc = "done")

\* C34: apply_preferential_voting terminates for every set of cast ballots:
\* every round that does not stop increments the preference index, so there
\* are at most as many elimination rounds as the longest ballot is long, and
\* the cap of 10,000 rounds never ends the loop.
C34_CountEndsWithinLongestBallot ==
    CountEnds /\ [](RoundsWithinIndex /\ RoundsWithinLongestCast)

\* what of C34 the code keeps: the call ends, within as many rounds as the
\* longest ballot of the index is long
CountEndsWithinIndex == CountEnds /\ []RoundsWithinIndex

\* C40: every member of get_winners is a current candidate: no ballot is
\* handed to an id that has stopped being a candidate since it was cast.
C40_WinnersAreCandidates ==
    count.pc # "scan" =>
        /\ \A r \in get_winners(election) : r.winners \subseteq election.candidates
        /\ \A c \in DOMAIN election.vote_count :
              election.vote_count[c] # {} => c \in election.candidates

----------------------------------------------------------------------------
(* Properties of the heart spawn, the bindings and the curse election *)

\* the hearts the hearts board counts on a cell
HeartsOn(g, pos) ==
    IF key(pos) \in DOMAIN g.object_board.map THEN g.object_board.map[key(pos)] ELSE 0

\* C35: a heart spawn on the cell of a player adds exactly one life to that
\* player (a dead player becomes alive and a candidate of the election again,
\* with a Revive event, a living one gets a Heal event) and leaves the hearts
\* board unchanged; on an empty cell it leaves the players unchanged and adds
\* exactly one to the heart count of the cell.
C35_HeartSpawnAddsLifeOrHeart ==
    SpawnHeartGuard =>
        \A m \in generate_heart_spawn(game) :
            LET r == game_action(game, m)
                k == key(m.to)
            IN  IF k \in DOMAIN game.board.map
                THEN LET u == game.board.map[k]
                     IN  /\ r.ok
                         /\ r.game.players[u].lives = game.players[u].lives + 1
                         /\ \A v \in DOMAIN game.players \ {u} :
                               r.game.players[v] = game.players[v]
                         /\ r.game.object_board = game.object_board
                         /\ game.players[u].lives = 0 =>
                               /\ r.event = "Revive"
                               /\ u \in r.game.players_alive_dead.alive
                               /\ u \in r.game.curse_election.candidates
                         /\ game.players[u].lives > 0 => r.event = "Heal"
                ELSE /\ r.ok
                     /\ r.game.players = game.players
                     /\ r.game.players_alive_dead = game.players_alive_dead
                     /\ HeartsOn(r.game, m.to) = HeartsOn(game, m.to) + 1

\* what of C35 the code keeps: the events, the alive set, the hearts board
\* when the cell is taken, the players and the new heart when it is empty
HeartSpawnWithoutLife ==
    SpawnHeartGuard =>
        \A m \in generate_heart_spawn(game) :
            LET r == game_action(game, m)
                k == key(m.to)
            IN  IF k \in DOMAIN game.board.map
                THEN LET u == game.board.map[k]
                     IN  /\ r.ok
                         /\ r.game.players = game.players
                         /\ r.game.object_board = game.object_board
                         /\ r.game.curse_election = game.curse_election
                         /\ game.players[u].lives = 0 =>
                               r.event = "Revive" /\ u \in r.game.players_alive_dead.alive
                         /\ game.players[u].lives > 0 => r.event = "Heal"
                ELSE /\ r.ok
                     /\ r.game.players = game.players
                     /\ r.game.players_alive_dead = game.players_alive_dead
                     /\ HeartsOn(r.game, m.to) = HeartsOn(game, m.to) + 1

\* C36: when endpoint E1 bound to user u is superseded by endpoint E2 through
\* a second Connect, the Disconnect{u} that the session of E1 sends when it
\* stops afterwards does not unbind E2: u is still bound to E2 once it is
\* processed, and so still receives what is sent to it.
C36_StaleDisconnectKeepsNewEndpoint ==
    \A msg \in SocketConnects :
        LET u == msg.user.user_id
        IN  (u \in DOMAIN sessions.map /\ msg.addr # {sessions.map[u]}) =>
                \A r \in ConnectOut(users, sessions, msg) :
                    r.ok =>
                        LET ss == DisconnectOut(r.sessions, [user_id |-> u])
                        IN  u \in DOMAIN ss.map /\ msg.addr = {ss.map[u]}

\* C37: in every reachable state, for every user u and every game g that has
\* not ended, u is a player of g if and only if user_games binds u to g; so a
\* user is a player of at most one game that has not ended, and the end of
\* one game never takes away a user's binding to another.
C37_PlayerIffBound ==
    \A g \in DOMAIN games :
        games[g].phase # "End" =>
            \A u \in Users \cup {Stranger} :
                (u \in DOMAIN games[g].players) <=> (u \in DOMAIN user_games /\ user_games[u] = g)

\* C38: while a game is in progress, after any sequence of Attack, Revive,
\* Curse, replenish and heart spawns, the candidates of the curse election are
\* the alive set and its voters are the dead set: exactly the dead can cast
\* curse votes and exactly the living can be cursed.
C38_RolesFollowAliveDead ==
    game.phase = "InProg" =>
        /\ game.curse_election.candidates = game.players_alive_dead.alive
        /\ game.curse_election.voters = game.players_alive_dead.dead

\* a step that moves a dead player to the alive set and gives it no life: a
\* heart spawn on its cell
HeartRevives ==
    \E u \in game.players_alive_dead.dead :
        u \in game'.players_alive_dead.alive /\ game'.players[u].lives = 0

\* what of C38 the code keeps: every step but a heart spawn on the cell of a
\* dead player keeps the candidates the alive set and the voters the dead set
RolesKeptButByHeart ==
    [][(C38_RolesFollowAliveDead /\ ~HeartRevives) => C38_RolesFollowAliveDead']_vars

\* C39: in the curse election, after any sequence of Curse actions, kills and
\* revives, the vote recorded for a voter names candidate c if and only if
\* the voter is in the tally set of c; no voter is left with a recorded vote
\* for a player that is no candidate, or with a recorded vote that is not
\* counted.
C39_RecordedVotesAreCounted ==
    LET e == game.curse_election
    IN  /\ \A v \in DOMAIN e.voter_vote :
              /\ e.voter_vote[v] \in e.candidates
              /\ e.voter_vote[v] \in DOMAIN e.vote_count
              /\ v \in e.vote_count[e.voter_vote[v]]
        /\ \A c \in DOMAIN e.vote_count : \A v \in e.vote_count[c] :
              v \in DOMAIN e.voter_vote /\ e.voter_vote[v] = c

\* what of C39 the code keeps: every vote the tally counts is the vote
\* recorded for its voter, and is counted for a candidate
CountedVotesAreRecorded ==
    LET e == game.curse_election
    IN  \A c \in DOMAIN e.vote_count : \A v \in e.vote_count[c] :
            /\ v \in DOMAIN e.voter_vote /\ e.voter_vote[v] = c
            /\ c \in e.candidates

====
